---- MODULE Spec2Model ----
(***************************************************************************)
(* A TLA+ model of the Wayfarer / Nomad MAVLink <-> MQTT bridge:           *)
(*   - Nomad backend/mav_router/router.py      Router.route_once           *)
(*   - Nomad backend/mav_router/transport.py   per-port out queues         *)
(*   - Nomad backend/mav_router/mqtt_adapter.py MQTTAdapter, MissionManager*)
(*   - wayfarer/core/registry.py, core/bridge.py, transports/*.py          *)
(* Time is counted in ticks of 0.1 s.  A Python dict keyed by a digest is  *)
(* a function whose value 0 stands for "key absent" (time.time() is never  *)
(* 0, and the code tests the stored time for truthiness).  An optional     *)
(* value (None or v) is the sequence <<>> or <<v>>.                        *)
(***************************************************************************)
EXTENDS Integers, Sequences, FiniteSets, TLC

VARIABLES
    now,                \* time.time(), in ticks of 0.1 s
    forwards,           \* Router.forwards (configuration, fixed at construction)
    observed_sysids,    \* Router.observed_sysids: port -> set of sysids
    last_addr,          \* Router.last_addr: port -> <<>> | <<addr>>
    recent_seen,        \* Router._recent_seen: digest -> last time (0: absent)
    recent_forwarded,   \* Router._recent_forwarded: <<port, digest, target>> -> time
    out_q,              \* ports[p]["out_q"]: sequence of [dest, data]
    lastRoute,          \* history: what the latest route_once did
    fwdAge              \* history: frame -> ticks since it was last forwarded anywhere,
                        \* capped at DedupeWindow (also: never forwarded)

VARIABLES
    pending_commands,   \* MQTTAdapter.pending_commands: ordered dict, a sequence of
                        \* [key |-> target_sys, items |-> sequence of [id, topic, data]]
    acks,               \* the acks published on command/<sys>/<comp>/ack, in order
    cmds,               \* history: the command messages on_message accepted, by id
    puts                \* history: id -> number of out-queue puts made for the command

routerVars == <<now, forwards, observed_sysids, last_addr, recent_seen,
                recent_forwarded, out_q, lastRoute, fwdAge>>
adapterVars == <<pending_commands, acks, cmds, puts>>

VARIABLE rt     \* run_mission_test: its stage, the mission, the items the vehicle
                \* holds, the downloaded list and the two hashes

VARIABLE cfg    \* MQTTAdapter.cfg: the keys gcs_sysid and gcs_compid (<<>>: key absent)

VARIABLES
    upload_states,     \* MissionManager.upload_states: sysid -> state dict (NoUpload = no key)
    download_states,   \* MissionManager.download_states: sysid -> state dict (NoDownload = no key)
    lastMission,       \* history: the last mission handler that ran, what it put and published
    lastStart          \* history: sysid -> the mission and time of the latest
                       \* start_mission_upload call

missionVars == <<upload_states, download_states, lastMission, lastStart>>

VARIABLES
    store,       \* DeviceRegistry._store: device id -> device dict (NoDevice = no key)
    connected,   \* per transport: the connection is open (MavlinkGeneral._connected)
    bridge_q,    \* Bridge.q, the inbound packet queue
    lastRx       \* history: the last frame an RX loop processed

registryVars == <<store, connected, bridge_q, lastRx>>

VARIABLES
    mqtt_rx,     \* the messages the broker has delivered to the adapter's client and
                 \* on_message has not handled yet
    lastDevice   \* history: the last device message published or handled

deviceVars == <<mqtt_rx, lastDevice>>

VARIABLES
    routes,      \* Bridge.routes: cfg["routes"], a list of from/to patterns
    q_out,       \* Bridge.q_out: outbound command packets
    txq,         \* txq[t]: the _txq of transport t
    wire,        \* wire[t]: the MAVLink messages sent on the connection of t
    lastCmd,     \* history: the last on_cmd call or _route_loop iteration
    req_rx       \* history: the seq of every MISSION_REQUEST a transport received

cmdVars == <<routes, q_out, txq, wire, lastCmd>>
bridgeVars == <<cmdVars, req_rx>>

VARIABLES
    router_in_q, \* the inbound queue the transports share with the router
    mqtt_pub_q,  \* the queue of raw reads the transports copy to the MQTT adapter
    mav_parsers, \* mav_parsers[name]: the bytes the parser of a transport holds
    msg_obj,     \* the local msg_obj of _pub_loop: the last message it decoded
    sender,      \* the vehicle's next frame and whether its first half is sent
    rx_log,      \* history: every read of a transport, with its time
    enq_log,     \* history: enq_log[p] is every put on the out queue of p
    pub_log      \* history: every MQTT publish of _pub_loop

telemVars == <<router_in_q, mqtt_pub_q, mav_parsers, msg_obj, sender, rx_log,
               enq_log, pub_log>>

VARIABLES
    t_run,       \* t_run[t]: the _run flag of transport t
    io_conn,     \* io_conn[t]: "open" when self._conn is set, else "none"
    io_lock,     \* io_lock[t]: the thread that holds self._io_lock, "" when free
    co_pc,       \* co_pc[t]: position of _connect_loop
    rx_pc,       \* rx_pc[t]: position of _rx_loop
    tx_pc,       \* tx_pc[t]: position of _tx_loop
    up_dev,      \* up_dev[t]: the dict the local dev of upsert_mav refers to
    up_store,    \* the dict DeviceRegistry._store holds for the device, "" if none
    up_heap,     \* up_heap[d]: the "transports" set of dict d
    up_hist      \* history: the first caller of upsert_mav and the callers done

ioVars == <<t_run, io_conn, io_lock, co_pc, rx_pc, tx_pc>>
upsertVars == <<up_dev, up_store, up_heap, up_hist>>

VARIABLES
    b_run,       \* Bridge._run
    stop_pc,     \* position of Bridge.stop
    bq,          \* bq["proc"] is Bridge.q, bq["route"] is Bridge.q_out
    wk_pc        \* wk_pc[w]: position of the Bridge worker w

stopVars == <<b_run, stop_pc, bq, wk_pc>>
threadVars == <<ioVars, upsertVars, stopVars>>

VARIABLES
    hq,          \* hq[k]: the contents of the hand-off queue k
    full_puts    \* history: full_puts[k], the number of puts that found queue k full

queueVars == <<hq, full_puts>>

VARIABLES
    src_identity,  \* MavlinkGeneral._source_sysid / _source_compid (<<>>: None)
    conn_id,       \* source_system / source_component of self._conn; <<>> when
                   \* self._conn is None
    lastTx         \* history: the last packet _tx_loop sent, the identity of the
                   \* connection before, at and after the send

txIdVars == <<src_identity, conn_id, lastTx>>

VARIABLES
    hb_last_addr,  \* Router.last_addr for the ports of the heartbeat configuration
    hb_out_q,      \* the out_q of these ports: sequences of [dest, data]
    lastTick       \* history: last_addr before the last heartbeat tick and what the
                   \* tick put on each port's out_q

hbVars == <<hb_last_addr, hb_out_q, lastTick>>

VARIABLES
    queueing,      \* on_message between its port lookup and the append to
                   \* pending_commands: <<>> or <<[key, item]>>
    flush_sys      \* _pending_loop between the item loop and "del" for one
                   \* target_sys: <<>> or <<target_sys>>

pendVars == <<queueing, flush_sys>>

VARIABLES
    snap_iter,     \* the dict iterator of a running DeviceRegistry.snapshot():
                   \* <<>> or <<[used, out]>>, the size of _store when the
                   \* iteration began and the device ids copied so far
    hb_thread      \* the thread of Bridge._heartbeat_loop: "loop" or "raised"

snapVars == <<snap_iter, hb_thread>>

\* The variables of the later sections.
moreVars == <<queueVars, txIdVars, hbVars, pendVars, snapVars>>

\* The variables of the threads that run beside the router.
extVars == <<telemVars, threadVars, moreVars>>

vars == <<routerVars, adapterVars, missionVars, registryVars, deviceVars,
          bridgeVars, cfg, rt, extVars>>

\* What the router and the transports leave alone.
notRouterVars == <<adapterVars, missionVars, registryVars, deviceVars, bridgeVars, cfg, rt,
                   moreVars>>

----------------------------------------------------------------------------
(* Bounds of the model *)

\* The clock runs from 1 to MaxTime ticks.
MaxTime == 3
\* The router takes its next item only while no out queue holds more than
\* MaxBacklog entries the transport has not sent yet.
MaxBacklog == 0
\* The number of command messages the MQTT adapter receives in a run.
MaxCmds == 2

----------------------------------------------------------------------------
(* Ports, addresses, frames *)

\* The configured ports in dict order (run_router builds `ports` in config order).
PortOrder == <<"udp_14550", "udp_14560">>
Ports == {PortOrder[i] : i \in 1..Len(PortOrder)}

\* The peer address the datagrams of the model come from.
RouterAddrs == {"peerA"}

\* A MAVLink v1 frame from vehicle sysid 3, a v2 frame from GCS sysid 251 and a
\* datagram too short to parse.
FrameVehicle == <<254, 0, 0, 3, 1, 0>>
FrameGcs == <<253, 0, 0, 0, 0, 251, 1>>
FrameShort == <<253, 0, 0>>
\* A v2 frame from a second vehicle, sysid 4.
FrameVehicle2 == <<253, 0, 0, 0, 0, 4, 1>>
Frames == {FrameVehicle, FrameGcs, FrameShort, FrameVehicle2}

\* parse_sysid_compid: <<>> (None, None) or <<sysid, compid>>.
parse_sysid_compid(pkt) ==
    IF Len(pkt) < 6 THEN <<>>
    ELSE IF pkt[1] = 254 THEN <<pkt[4], pkt[5]>>
    ELSE IF pkt[1] = 253 /\ Len(pkt) >= 7 THEN <<pkt[6], pkt[7]>>
    ELSE <<>>

\* hashlib.sha256(data).hexdigest(): collision-free on the frames of the model.
Digest(data) == data

\* The sysids the mission topics of the model name.
MissionSysids == {3}

----------------------------------------------------------------------------
(* Router (Nomad backend/mav_router/router.py) *)

\* Router.__init__ dedupe_window = 0.2 s.
DedupeWindow == 2
\* fr.get("dedupe_window", 1.0): the per-rule window when a rule names none.
RuleDedupeDefault == 10

\* A forward target {"type": "udp", "host": h, "port": n}.
UdpTarget(h) == [type |-> "udp", port_name |-> "", dest |-> <<h>>]
\* A forward target {"type": "to_port", "port_name": p} (no explicit host/port:
\* dest_addr is None).
ToPortTarget(p) == [type |-> "to_port", port_name |-> p, dest |-> <<>>]

\* The forwarding configurations a router is constructed with.
FwdNone == <<>>
FwdAnyToPort ==
    << [from |-> "any", to |-> <<ToPortTarget("udp_14550")>>,
        dedupe_window |-> RuleDedupeDefault] >>
FwdMirror ==
    << [from |-> "udp_14550",
        to |-> <<UdpTarget("qgc"), ToPortTarget("udp_14560")>>,
        dedupe_window |-> 1] >>
ForwardConfigs == {FwdNone, FwdAnyToPort, FwdMirror}

AllTargets == {UdpTarget("qgc"), ToPortTarget("udp_14550"), ToPortTarget("udp_14560")}
ForwardKeys == Ports \X Frames \X AllTargets

\* The (target, window) pairs of the rules matching an inbound port, in rule order
\* (the two nested for loops of route_once).
RECURSIVE MatchingTargets(_, _)
MatchingTargets(frs, port_name) ==
    IF frs = <<>> THEN <<>>
    ELSE LET fr == Head(frs)
             mine == IF fr.from # "any" /\ fr.from # port_name THEN <<>>
                     ELSE [i \in 1..Len(fr.to) |->
                              [t |-> fr.to[i], window |-> fr.dedupe_window]]
         IN  mine \o MatchingTargets(Tail(frs), port_name)

\* The body of the forwarding loops: acc = [rf, q, fwd_ports, fwd_udp] carries
\* _recent_forwarded, the out queues, and what was forwarded where.
RECURSIVE ApplyForwards(_, _, _, _, _)
ApplyForwards(tws, port_name, data, t_now, acc) ==
    IF tws = <<>> THEN acc
    ELSE LET tw == Head(tws)
             key == <<port_name, Digest(data), tw.t>>
             last == acc.rf[key]
         IN  IF last # 0 /\ (t_now - last) < tw.window
             THEN ApplyForwards(Tail(tws), port_name, data, t_now, acc)
             ELSE LET toPort == tw.t.type = "to_port" /\ tw.t.port_name \in Ports
                      isUdp == tw.t.type = "udp"
                      acc1 == [rf |-> [acc.rf EXCEPT ![key] = t_now],
                               q |-> IF toPort
                                     THEN [acc.q EXCEPT ![tw.t.port_name] =
                                             Append(@, [dest |-> tw.t.dest, data |-> data])]
                                     ELSE acc.q,
                               fwd_ports |-> IF toPort
                                             THEN acc.fwd_ports \cup {tw.t.port_name}
                                             ELSE acc.fwd_ports,
                               fwd_udp |-> IF isUdp
                                           THEN acc.fwd_udp \cup {tw.t.dest[1]}
                                           ELSE acc.fwd_udp]
                  IN  ApplyForwards(Tail(tws), port_name, data, t_now, acc1)

IsGcsSysid(s) == 250 <= s /\ s <= 255

\* PolicyDests with every branch restricted to the ports that have seen a GCS.
PolicyDests_GcsOnly(port_name, sc, obs) ==
    SelectSeq(PortOrder, LAMBDA p : p # port_name /\ \E s \in obs[p] : IsGcsSysid(s))

\* PolicyDests with the vehicle branch broadcasting like the GCS branch.
PolicyDests_Broadcast(port_name, sc, obs) ==
    SelectSeq(PortOrder, LAMBDA p : p # port_name)

\* "choose destinations": the ports the sysid policy enqueues to, in dict order.
PolicyDests(port_name, sc, obs) ==
    IF sc = <<>>
    THEN SelectSeq(PortOrder, LAMBDA p : p # port_name)
    ELSE IF sc[1] < 250
         THEN SelectSeq(PortOrder,
                        LAMBDA p : p # port_name /\ \E s \in obs[p] : IsGcsSysid(s))
         ELSE SelectSeq(PortOrder, LAMBDA p : p # port_name)

\* "publish to out queues with addr resolution".
RECURSIVE PutAll(_, _, _, _)
PutAll(q, dps, la, data) ==
    IF dps = <<>> THEN q
    ELSE PutAll([q EXCEPT ![Head(dps)] = Append(@, [dest |-> la[Head(dps)], data |-> data])],
                Tail(dps), la, data)

SeqToSet(s) == {s[i] : i \in 1..Len(s)}

NoRoute == [port |-> "", data |-> <<>>, suppressed |-> FALSE,
            fwd_ports |-> {}, fwd_udp |-> {}, dests |-> {}, prevAge |-> DedupeWindow]

\* Router.route_once on the inbound item (port_name, src_addr, data); record
\* says whether the step is written to the history variables lastRoute, fwdAge.
RouteOnce(port_name, src_addr, data, record) ==
    LET sc == parse_sysid_compid(data)
        obs1 == IF sc # <<>>
                THEN [observed_sysids EXCEPT ![port_name] = @ \cup {sc[1]}]
                ELSE observed_sysids
        la1 == IF sc # <<>>
               THEN [last_addr EXCEPT ![port_name] = <<src_addr>>]
               ELSE last_addr
        useFwd == forwards # <<>> /\ data # <<>>
        last_seen == recent_seen[Digest(data)]
        suppressed == useFwd /\ last_seen # 0 /\ (now - last_seen) < DedupeWindow
        acc0 == [rf |-> recent_forwarded, q |-> out_q, fwd_ports |-> {}, fwd_udp |-> {}]
        acc == IF useFwd /\ ~suppressed
               THEN ApplyForwards(MatchingTargets(forwards, port_name),
                                  port_name, data, now, acc0)
               ELSE acc0
        dests == IF suppressed THEN <<>> ELSE PolicyDests(port_name, sc, obs1)
        q2 == PutAll(acc.q, dests, la1, data)
        forwarded == acc.fwd_ports # {} \/ acc.fwd_udp # {} \/ dests # <<>>
    IN  /\ \A p \in Ports : Len(out_q[p]) <= MaxBacklog
        /\ observed_sysids' = obs1
        /\ last_addr' = la1
        /\ recent_seen' = IF useFwd THEN [recent_seen EXCEPT ![Digest(data)] = now]
                          ELSE recent_seen
        /\ recent_forwarded' = acc.rf
        /\ out_q' = q2
        /\ lastRoute' = IF record
                         THEN [port |-> port_name, data |-> data,
                               suppressed |-> suppressed,
                               fwd_ports |-> acc.fwd_ports, fwd_udp |-> acc.fwd_udp,
                               dests |-> SeqToSet(dests), prevAge |-> fwdAge[data]]
                         ELSE lastRoute
        /\ fwdAge' = IF record /\ forwarded THEN [fwdAge EXCEPT ![data] = 0]
                      ELSE fwdAge
        /\ UNCHANGED <<now, forwards, notRouterVars>>

\* The frames the model feeds a router: all of them when no forwarding rule is
\* configured, the two parseable ones when rules (and their digest tables) are.
RouterFrames ==
    IF forwards = <<>> THEN {FrameVehicle, FrameGcs, FrameShort}
    ELSE {FrameVehicle, FrameGcs}

\* The router thread takes the next inbound item off router_in_q.
RouterStep ==
    \E p \in Ports, a \in RouterAddrs, d \in RouterFrames : RouteOnce(p, a, d, TRUE) /\ UNCHANGED extVars

\* udp_port_process: "while not port_out_q.empty()" drains the whole out queue
\* (entries with dest None are dropped, the others are sent).
TransportSend(p) ==
    /\ out_q[p] # <<>>
    /\ out_q' = [out_q EXCEPT ![p] = <<>>]
    /\ UNCHANGED <<now, forwards, observed_sysids, last_addr, recent_seen,
                   recent_forwarded, lastRoute, fwdAge, notRouterVars, extVars>>

TransportStep == \E p \in Ports : TransportSend(p)

\* Wall-clock time advances.
Tick ==
    /\ now < MaxTime
    /\ now' = now + 1
    /\ fwdAge' = [f \in Frames |-> IF fwdAge[f] < DedupeWindow THEN fwdAge[f] + 1
                                   ELSE fwdAge[f]]
    /\ UNCHANGED <<forwards, observed_sysids, last_addr, recent_seen,
                   recent_forwarded, out_q, lastRoute, notRouterVars, extVars>>

InitRouterState ==
    /\ now = 1
    /\ observed_sysids = [p \in Ports |-> {}]
    /\ last_addr = [p \in Ports |-> <<>>]
    /\ recent_seen = [f \in Frames |-> 0]
    /\ recent_forwarded = [k \in ForwardKeys |-> 0]
    /\ out_q = [p \in Ports |-> <<>>]
    /\ lastRoute = NoRoute
    /\ fwdAge = [f \in Frames |-> DedupeWindow]

InitAdapterState ==
    /\ pending_commands = <<>>
    /\ acks = <<>>
    /\ cmds = <<>>
    /\ puts = <<>>

----------------------------------------------------------------------------
(* MQTT adapter, command path (Nomad backend/mav_router/mqtt_adapter.py) *)

\* The <sysid> and <compid> segments of the command topics of the model.
CmdSysids == {3, 4}
CmdCompids == {1}

\* The frames the router sees beside an adapter: two vehicles.
AdapterFrames == {FrameVehicle, FrameVehicle2}

\* The decoded payload of a command message (`data` after json.loads):
\*   kind        COMMAND_LONG | MISSION_ITEM_INT (data["msg"] or data["type"]),
\*               OTHER (another dict), TEXT (not a dict: json.loads failed or
\*               returned a list, a number, a string)
\*   target_comp data.get("target_comp"): <<>> when absent
\*   ok          the int()/float() conversions of the fields succeed (a
\*               COMMAND_LONG without "command" makes int(None) raise)
Payloads ==
    {[kind |-> "COMMAND_LONG", target_comp |-> <<>>, ok |-> TRUE],
     [kind |-> "COMMAND_LONG", target_comp |-> <<>>, ok |-> FALSE],
     [kind |-> "MISSION_ITEM_INT", target_comp |-> <<1>>, ok |-> TRUE],
     [kind |-> "OTHER", target_comp |-> <<>>, ok |-> TRUE],
     [kind |-> "TEXT", target_comp |-> <<>>, ok |-> TRUE]}

\* The adapter's configuration: without gcs_sysid/gcs_compid, and with an
\* identity that differs from the encoder's defaults.
CfgNoIdentity == [gcs_sysid |-> <<>>, gcs_compid |-> <<>>]
CfgIdentity == [gcs_sysid |-> <<250>>, gcs_compid |-> <<190>>]
GcsConfigs == {CfgNoIdentity, CfgIdentity}

\* mavlink_encoder: the defaults of the parameters src_sys and src_comp, also
\* the defaults of self.cfg.get("gcs_sysid", 255), self.cfg.get("gcs_compid", 1).
EncoderSrcSys == 255
EncoderSrcComp == 1

IsMavKind(data) == data.kind \in {"COMMAND_LONG", "MISSION_ITEM_INT"}

\* dict.get(key, default) on an optional field.
GetOr(field, default) == IF field = <<>> THEN default ELSE field[1]

\* DestPortFor answering the first configured port when no port has observed
\* the target.
DestPortFor_Broadcast(target_sys, obs) ==
    LET hits == SelectSeq(PortOrder, LAMBDA p : target_sys \in obs[p])
    IN  IF hits = <<>> THEN <<PortOrder[1]>> ELSE <<Head(hits)>>

\* "find port where target sysid was observed": the first port, in dict order,
\* whose observed set holds target_sys; <<>> when there is none.
DestPortFor(target_sys, obs) ==
    LET hits == SelectSeq(PortOrder, LAMBDA p : target_sys \in obs[p])
    IN  IF hits = <<>> THEN <<>> ELSE <<Head(hits)>>

\* mavlink_encoder.encode_command_long / encode_mission_item_int: the packed frame,
\* as the message it carries.
EncodeMav(data, tgt_sys, tgt_comp, src_sys, src_comp) ==
    [msg |-> data.kind, target_sys |-> tgt_sys, target_comp |-> tgt_comp,
     src_sys |-> src_sys, src_comp |-> src_comp]

\* json.dumps({"topic": topic, "payload": data}).encode("utf-8")
JsonBytes(topic, data) ==
    [msg |-> "JSON", target_sys |-> topic[1], target_comp |-> topic[2]]

\* self.pending_commands.setdefault(target_sys, []).append((topic, data))
PendingAppend(pc, target_sys, item) ==
    IF \E i \in 1..Len(pc) : pc[i].key = target_sys
    THEN [i \in 1..Len(pc) |->
            IF pc[i].key = target_sys
            THEN [pc[i] EXCEPT !.items = Append(@, item)]
            ELSE pc[i]]
    ELSE Append(pc, [key |-> target_sys, items |-> <<item>>])

\* Some port has observed sys.
Observed(sys) == \E p \in Ports : sys \in observed_sysids[p]

\* MQTTAdapter.on_message for a message on command/<target_sys>/<target_comp>/...
\* whose payload is not a load_waypoints or download_mission action.
OnMessageCommand(target_sys, target_comp, data) ==
    LET id == Len(cmds) + 1
        topic == <<target_sys, target_comp>>
        dp == DestPortFor(target_sys, observed_sysids)
        encoded == IsMavKind(data) /\ data.ok
        tgt_comp == GetOr(data.target_comp, target_comp)
        src_sys == GetOr(cfg.gcs_sysid, EncoderSrcSys)
        src_comp == GetOr(cfg.gcs_compid, EncoderSrcComp)
        out_bytes == IF encoded
                     THEN EncodeMav(data, target_sys, tgt_comp, src_sys, src_comp)
                     ELSE JsonBytes(topic, data)
    IN  /\ Len(cmds) < MaxCmds
        /\ cmds' = Append(cmds, [sys |-> target_sys, comp |-> target_comp,
                                 data |-> data,
                                 unobserved |-> ~Observed(target_sys)])
        /\ IF dp = <<>>
           THEN /\ pending_commands' =
                       PendingAppend(pending_commands, target_sys,
                                     [id |-> id, topic |-> topic, data |-> data])
                /\ puts' = Append(puts, 0)
                /\ UNCHANGED <<acks, out_q>>
           ELSE IF last_addr[dp[1]] = <<>>
           THEN /\ puts' = Append(puts, 0)
                /\ UNCHANGED <<pending_commands, acks, out_q>>
           ELSE /\ acks' = IF encoded
                           THEN Append(acks, [sys |-> target_sys, comp |-> tgt_comp,
                                              status |-> "encoded", cmd |-> id])
                           ELSE acks
                /\ out_q' = [out_q EXCEPT ![dp[1]] =
                                Append(@, [dest |-> last_addr[dp[1]], data |-> out_bytes])]
                /\ puts' = Append(puts, 1)
                /\ UNCHANGED pending_commands
        /\ UNCHANGED <<now, forwards, observed_sysids, last_addr, recent_seen,
                       recent_forwarded, lastRoute, fwdAge, missionVars, registryVars,
                       deviceVars, bridgeVars, cfg, rt, extVars>>

CommandStep ==
    \E s \in CmdSysids, c \in CmdCompids, d \in Payloads : OnMessageCommand(s, c, d)

\* The "for topic, data in items" loop of _pending_loop for one target_sys:
\* acc = [keep, q, acks, puts].
RECURSIVE FlushItems(_, _, _, _, _)
FlushItems(items, target_sys, dest_port, dest_addr, acc) ==
    IF items = <<>> THEN acc
    ELSE LET it == Head(items)
             data == it.data
             raised == IsMavKind(data) /\ ~data.ok
             out_bytes == IF IsMavKind(data)
                          THEN EncodeMav(data, target_sys, GetOr(data.target_comp, 1),
                                         EncoderSrcSys, EncoderSrcComp)
                          ELSE JsonBytes(it.topic, data)
             acc1 == IF raised THEN acc
                     ELSE [acc EXCEPT
                             !.q[dest_port] =
                                 Append(@, [dest |-> dest_addr, data |-> out_bytes]),
                             !.puts[it.id] = @ + 1,
                             !.acks = IF data.kind = "TEXT" THEN @
                                      ELSE Append(@, [sys |-> target_sys,
                                                      comp |-> GetOr(data.target_comp, 0),
                                                      status |-> "delivered",
                                                      cmd |-> it.id])]
         IN  FlushItems(Tail(items), target_sys, dest_port, dest_addr, acc1)

\* The "for target_sys in keys" loop of _pending_loop: an entry whose target has
\* an observed port with a last_addr is flushed and deleted, the others stay.
RECURSIVE PendingPass(_, _)
PendingPass(entries, acc) ==
    IF entries = <<>> THEN acc
    ELSE LET e == Head(entries)
             dp == DestPortFor(e.key, observed_sysids)
         IN  IF dp = <<>> \/ last_addr[dp[1]] = <<>>
             THEN PendingPass(Tail(entries), [acc EXCEPT !.keep = Append(@, e)])
             ELSE PendingPass(Tail(entries),
                              FlushItems(e.items, e.key, dp[1], last_addr[dp[1]], acc))

\* One pass of MQTTAdapter._pending_loop (the body of its while loop).
PendingLoop ==
    LET acc == PendingPass(pending_commands,
                           [keep |-> <<>>, q |-> out_q, acks |-> acks, puts |-> puts])
    IN  /\ pending_commands # <<>>
        /\ pending_commands' = acc.keep
        /\ out_q' = acc.q
        /\ acks' = acc.acks
        /\ puts' = acc.puts
        /\ UNCHANGED <<cmds, now, forwards, observed_sysids, last_addr, recent_seen,
                       recent_forwarded, lastRoute, fwdAge, missionVars, registryVars,
                       deviceVars, bridgeVars, cfg, rt, extVars>>

AdapterRouterStep ==
    \E p \in Ports, a \in RouterAddrs, d \in AdapterFrames : RouteOnce(p, a, d, FALSE) /\ UNCHANGED extVars

\* The ids of the commands still held in pending_commands.
PendingIds ==
    UNION {{pending_commands[i].items[j].id : j \in 1..Len(pending_commands[i].items)}
              : i \in 1..Len(pending_commands)}

\* The acks published for command id on command/<sys>/<comp>/ack.
AcksFor(id, sys, comp) ==
    {k \in 1..Len(acks) : acks[k].cmd = id /\ acks[k].sys = sys /\ acks[k].comp = comp}

----------------------------------------------------------------------------
(* Mission manager (Nomad backend/mav_router/mqtt_adapter.py, MissionManager;
   backend/waypoint_validator/validator.py) *)

MissionCompids == {1}

\* The upload timeout, in ticks (30 s).
MissionTimeout == 300

\* The waypoints of a load_waypoints payload; <<>> is a missing key.
WpA == [lat |-> <<47>>, lon |-> <<8>>, alt |-> <<10>>]
WpB == [lat |-> <<48>>, lon |-> <<9>>, alt |-> <<20>>]
WpNoLat == [lat |-> <<>>, lon |-> <<9>>, alt |-> <<20>>]
WaypointLists == {<<WpA>>, <<WpA, WpB>>, <<WpA, WpNoLat>>}

\* The seq fields of the MISSION_REQUEST, MISSION_ITEM_INT messages and the
\* count fields of the MISSION_COUNT messages the vehicle sends.
RequestSeqs == {-1, 0, 1, 2}
ItemSeqs == {0, 1, 2}
Counts == {0, 1, 2}

\* What the mission handlers leave alone, out_q apart.
notMissionVars == <<now, forwards, observed_sysids, last_addr, recent_seen,
                    recent_forwarded, lastRoute, fwdAge, adapterVars, registryVars,
                    bridgeVars, cfg, rt, extVars>>

\* validator.validate_waypoints: (ok, normalized list).
validate_waypoints(waypoints) ==
    IF \E i \in 1..Len(waypoints) :
            waypoints[i].lat = <<>> \/ waypoints[i].lon = <<>> \/ waypoints[i].alt = <<>>
    THEN [ok |-> FALSE, norm |-> <<>>]
    ELSE [ok |-> TRUE,
          norm |-> [i \in 1..Len(waypoints) |->
                      [seq |-> i - 1, lat |-> waypoints[i].lat[1],
                       lon |-> waypoints[i].lon[1], alt |-> waypoints[i].alt[1],
                       frame |-> 6, action |-> "waypoint"]]]

\* validator.waypoints_to_mission_items: x, y in 1e-7 degrees.
waypoints_to_mission_items(norm) ==
    [i \in 1..Len(norm) |->
        [seq |-> norm[i].seq, frame |-> norm[i].frame, command |-> 16,
         x |-> norm[i].lat * 10000000, y |-> norm[i].lon * 10000000,
         z |-> norm[i].alt, params |-> <<>>]]

\* mavlink_encoder.encode_mission_*: the packed frame, as the message it carries.
EncodeMissionCount(sysid, compid, count) ==
    [msg |-> "MISSION_COUNT", target_sys |-> sysid, target_comp |-> compid,
     count |-> count]

EncodeMissionItemInt(sysid, compid, seq, item) ==
    [msg |-> "MISSION_ITEM_INT", target_sys |-> sysid, target_comp |-> compid,
     seq |-> seq, frame |-> item.frame, command |-> item.command,
     x |-> item.x, y |-> item.y, z |-> item.z]

EncodeMissionRequestList(sysid, compid) ==
    [msg |-> "MISSION_REQUEST_LIST", target_sys |-> sysid, target_comp |-> compid]

EncodeMissionRequestInt(sysid, compid, seq) ==
    [msg |-> "MISSION_REQUEST_INT", target_sys |-> sysid, target_comp |-> compid,
     seq |-> seq]

\* MissionManager._send_to_drone on the out queues q: (sent?, queues after).
SendToDrone(sysid, data, q) ==
    LET dp == DestPortFor(sysid, observed_sysids)
    IN  IF dp # <<>> /\ last_addr[dp[1]] # <<>>
        THEN [ok |-> TRUE,
              q |-> [q EXCEPT ![dp[1]] =
                        Append(@, [dest |-> last_addr[dp[1]], data |-> data])]]
        ELSE [ok |-> FALSE, q |-> q]

\* RequestedItem answering the item after the requested one.
RequestedItem_Next(mission, seq) ==
    mission[IF seq + 2 <= Len(mission) THEN seq + 2 ELSE 1]

\* "item = mission[seq]" of handle_mission_request (seq counts from 0).
RequestedItem(mission, seq) == mission[seq + 1]

\* UploadStatus counting the items sent so far.
UploadStatus_Sent(sysid, compid, state) ==
    [root |-> "Nomad/missions/uploaded", sys |-> sysid, leaf |-> "status",
     sysid |-> sysid, compid |-> compid, status |-> "completed",
     duration |-> now - state.start_time, item_count |-> Cardinality(state.sent)]

\* The status handle_mission_ack publishes on Nomad/missions/uploaded/<sysid>/status.
UploadStatus(sysid, compid, state) ==
    [root |-> "Nomad/missions/uploaded", sys |-> sysid, leaf |-> "status",
     sysid |-> sysid, compid |-> compid, status |-> "completed",
     duration |-> now - state.start_time, item_count |-> Len(state.mission)]

\* MissionManager.__init__: no upload, no download.
NoUpload == [state |-> "none", mission |-> <<>>, sent |-> {}, start_time |-> 0,
             target_comp |-> 0, expected_hash |-> <<>>]
NoDownload == [state |-> "none", mission |-> <<>>, start_time |-> 0, target_comp |-> 0]
NoMission == [op |-> "", sys |-> 0, comp |-> 0, seq |-> 0, pre |-> NoUpload, put |-> <<>>,
              pub |-> <<>>, time |-> 0]

NoDevMsg == [stage |-> "", origin |-> "", src_sys |-> 0, msg_type |-> "",
             delivered |-> FALSE, handler |-> "", sysid |-> <<>>, compid |-> <<>>]

NoStart == [mission |-> <<>>, up_time |-> 0]

InitDeviceState ==
    /\ mqtt_rx = <<>>
    /\ lastDevice = NoDevMsg

InitMissionState ==
    /\ upload_states = [s \in MissionSysids |-> NoUpload]
    /\ download_states = [s \in MissionSysids |-> NoDownload]
    /\ lastMission = NoMission
    /\ lastStart = [s \in MissionSysids |-> NoStart]

\* The number of entries the out queues of the ports ps hold.
RECURSIVE Queued(_)
Queued(ps) ==
    IF ps = <<>> THEN 0 ELSE Len(out_q[Head(ps)]) + Queued(Tail(ps))

\* The mission handlers run while the out queues together hold no more than
\* MaxBacklog entries the transports have not sent yet.
QueueRoom == Queued(PortOrder) <= MaxBacklog

\* StartUpload keeping the sent set of the upload it replaces.
StartUpload_KeepSent(sysid, compid, mission, expected_hash) ==
    LET data == EncodeMissionCount(sysid, compid, Len(mission))
        r == SendToDrone(sysid, data, out_q)
    IN  [st |-> [state |-> IF r.ok THEN "sending_items" ELSE "sending_count",
                 mission |-> mission, sent |-> upload_states[sysid].sent,
                 start_time |-> now,
                 target_comp |-> compid, expected_hash |-> expected_hash],
         q |-> r.q,
         put |-> IF r.ok THEN <<data>> ELSE <<>>]

\* MissionManager.start_mission_upload: (state dict stored, queues after, frames sent).
StartUpload(sysid, compid, mission, expected_hash) ==
    LET data == EncodeMissionCount(sysid, compid, Len(mission))
        r == SendToDrone(sysid, data, out_q)
    IN  [st |-> [state |-> IF r.ok THEN "sending_items" ELSE "sending_count",
                 mission |-> mission, sent |-> {}, start_time |-> now,
                 target_comp |-> compid, expected_hash |-> expected_hash],
         q |-> r.q,
         put |-> IF r.ok THEN <<data>> ELSE <<>>]

\* MQTTAdapter.on_message, action load_waypoints on command/<sysid>/<compid>/...
LoadWaypoints(target_sys, target_comp, waypoints) ==
    LET v == validate_waypoints(waypoints)
        h == <<Digest(v.norm)>>
        up == StartUpload(target_sys, target_comp,
                          waypoints_to_mission_items(v.norm), h)
        status == IF v.ok THEN "validated and uploading" ELSE "validated"
    IN  /\ QueueRoom
        /\ upload_states' = IF v.ok THEN [upload_states EXCEPT ![target_sys] = up.st]
                            ELSE upload_states
        /\ out_q' = IF v.ok THEN up.q ELSE out_q
        /\ lastMission' =
              [op |-> "load_waypoints", sys |-> target_sys, comp |-> target_comp,
               seq |-> 0,
               pre |-> upload_states[target_sys],
               put |-> IF v.ok THEN up.put ELSE <<>>,
               pub |-> <<[root |-> "Nomad/waypoints", leaf |-> "validation",
                          ok |-> v.ok, hash |-> h],
                         [root |-> "command", sys |-> target_sys, comp |-> target_comp,
                          leaf |-> "ack", status |-> status, ok |-> v.ok, hash |-> h]>>,
               time |-> now]
        /\ lastStart' = IF v.ok
                        THEN [lastStart EXCEPT
                                ![target_sys].mission = waypoints_to_mission_items(v.norm),
                                ![target_sys].up_time = now]
                        ELSE lastStart
        /\ UNCHANGED <<download_states, notMissionVars>>

LoadWaypointsStep ==
    \E s \in MissionSysids, c \in MissionCompids, w \in WaypointLists :
        LoadWaypoints(s, c, w) /\ UNCHANGED deviceVars

\* MissionManager.handle_mission_request, called by on_message for
\* device/<sysid>/<compid>/MISSION_REQUEST[_INT].
MissionRequest(sysid, compid, seq) ==
    LET state == upload_states[sysid]
        valid == /\ state.state = "sending_items"
                 /\ seq >= 0
                 /\ seq < Len(state.mission)
        data == EncodeMissionItemInt(sysid, compid, seq,
                                     RequestedItem(state.mission, seq))
        r == SendToDrone(sysid, data, out_q)
        sent == valid /\ r.ok
    IN  /\ QueueRoom
        /\ upload_states' = IF sent
                            THEN [upload_states EXCEPT ![sysid].sent = @ \cup {seq}]
                            ELSE upload_states
        /\ out_q' = IF sent THEN r.q ELSE out_q
        /\ lastMission' = [op |-> "MISSION_REQUEST", sys |-> sysid, comp |-> compid,
                           seq |-> seq,
                           pre |-> state,
                           put |-> IF sent THEN <<data>> ELSE <<>>,
                           pub |-> <<>>, time |-> now]
        /\ UNCHANGED <<download_states, lastStart, notMissionVars>>

MissionRequestStep ==
    \E s \in MissionSysids, c \in MissionCompids, k \in RequestSeqs :
        MissionRequest(s, c, k) /\ UNCHANGED deviceVars

\* handle_mission_ack completing an upload again that is already completed.
AckExpected_Completed(state) == state.state \in {"sending_items", "completed"}

\* handle_mission_ack, "if state and state['state'] == 'sending_items'".
AckExpected(state) == state.state = "sending_items"

\* MissionManager.handle_mission_ack, called by on_message for
\* device/<sysid>/<compid>/MISSION_ACK.
MissionAck(sysid, compid) ==
    LET state == upload_states[sysid]
        active == AckExpected(state)
    IN  /\ upload_states' = IF active
                            THEN [upload_states EXCEPT ![sysid].state = "completed"]
                            ELSE upload_states
        /\ lastMission' = [op |-> "MISSION_ACK", sys |-> sysid, comp |-> compid,
                           seq |-> 0,
                           pre |-> state, put |-> <<>>,
                           pub |-> IF active
                                   THEN <<UploadStatus(sysid, compid, state)>>
                                   ELSE <<>>,
                           time |-> now]
        /\ UNCHANGED <<download_states, out_q, lastStart, notMissionVars>>

MissionAckStep ==
    \E s \in MissionSysids, c \in MissionCompids : MissionAck(s, c) /\ UNCHANGED deviceVars

\* MQTTAdapter.on_message, action download_mission: MissionManager.start_mission_download
\* and the ack on the command topic.
DownloadMission(target_sys, target_comp) ==
    LET data == EncodeMissionRequestList(target_sys, target_comp)
        r == SendToDrone(target_sys, data, out_q)
    IN  /\ QueueRoom
        /\ download_states' =
              [download_states EXCEPT ![target_sys] =
                  [state |-> "requesting_list", mission |-> <<>>,
                   start_time |-> now, target_comp |-> target_comp]]
        /\ out_q' = r.q
        /\ lastMission' =
              [op |-> "download_mission", sys |-> target_sys, comp |-> target_comp,
               seq |-> 0,
               pre |-> upload_states[target_sys],
               put |-> IF r.ok THEN <<data>> ELSE <<>>,
               pub |-> <<[root |-> "command", sys |-> target_sys, comp |-> target_comp,
                          leaf |-> "ack", status |-> "download_started"]>>,
               time |-> now]
        /\ UNCHANGED <<upload_states, lastStart, notMissionVars>>

DownloadMissionStep ==
    \E s \in MissionSysids, c \in MissionCompids : DownloadMission(s, c) /\ UNCHANGED deviceVars

\* handle_mission_count asking for item 0 even when the vehicle reports no items.
RequestsFirst_Always(count) == TRUE

\* handle_mission_count: "if count == 0: ... return" before the first request.
RequestsFirst(count) == count # 0

\* MissionManager.handle_mission_count, called by on_message for
\* device/<sysid>/<compid>/MISSION_COUNT.
MissionCount(sysid, compid, count) ==
    LET data == EncodeMissionRequestInt(sysid, compid, 0)
        r == SendToDrone(sysid, data, out_q)
    IN  /\ QueueRoom
        /\ download_states' =
              [download_states EXCEPT ![sysid] =
                  [state |-> IF RequestsFirst(count) THEN "downloading" ELSE "completed",
                   mission |-> [i \in 1..count |-> <<>>],
                   start_time |-> now, target_comp |-> compid]]
        /\ out_q' = IF RequestsFirst(count) THEN r.q ELSE out_q
        /\ lastMission' = [op |-> "MISSION_COUNT", sys |-> sysid, comp |-> compid,
                           seq |-> count,
                           pre |-> upload_states[sysid],
                           put |-> IF RequestsFirst(count) /\ r.ok THEN <<data>> ELSE <<>>,
                           pub |-> <<>>, time |-> now]
        /\ UNCHANGED <<upload_states, lastStart, notMissionVars>>

MissionCountStep ==
    \E s \in MissionSysids, c \in MissionCompids, n \in Counts : MissionCount(s, c, n) /\ UNCHANGED deviceVars

\* The item_data on_message builds from the fields of a MISSION_ITEM_INT message.
ItemData(seq) ==
    [seq |-> seq, frame |-> 6, command |-> 16, x |-> 470000000 + seq,
     y |-> 80000000 + seq, z |-> 10, params |-> <<0, 0, 0, 0>>]

\* handle_mission_item taking items in every state a download has been in.
Downloading_Any(state) == state.state # "none"

\* handle_mission_item, "if not state or state['state'] != 'downloading': return".
Downloading(state) == state.state = "downloading"

\* MissionManager.handle_mission_item, called by on_message for
\* device/<sysid>/<compid>/MISSION_ITEM_INT; a list entry <<>> is None.
MissionItem(sysid, compid, seq) ==
    LET state == download_states[sysid]
        stored == Downloading(state) /\ seq < Len(state.mission)
        mission1 == [state.mission EXCEPT ![seq + 1] = <<ItemData(seq)>>]
        complete == \A i \in 1..Len(mission1) : mission1[i] # <<>>
        next_seq == seq + 1
        asks == stored /\ ~complete /\ next_seq < Len(mission1)
        data == EncodeMissionRequestInt(sysid, compid, next_seq)
        r == SendToDrone(sysid, data, out_q)
    IN  /\ QueueRoom
        /\ download_states' =
              IF stored
              THEN [download_states EXCEPT
                      ![sysid].mission = mission1,
                      ![sysid].state = IF complete THEN "completed" ELSE @]
              ELSE download_states
        /\ out_q' = IF asks THEN r.q ELSE out_q
        /\ lastMission' =
              [op |-> "MISSION_ITEM_INT", sys |-> sysid, comp |-> compid,
                           seq |-> seq,
               pre |-> upload_states[sysid],
               put |-> IF asks /\ r.ok THEN <<data>> ELSE <<>>,
               pub |-> IF stored /\ complete
                       THEN <<[root |-> "Nomad/missions/downloaded", sys |-> sysid,
                               sysid |-> sysid, compid |-> compid,
                               mission |-> mission1, count |-> Len(mission1),
                               download_duration |-> now - state.start_time]>>
                       ELSE <<>>,
               time |-> now]
        /\ UNCHANGED <<upload_states, lastStart, notMissionVars>>

MissionItemStep ==
    \E s \in MissionSysids, c \in MissionCompids, k \in ItemSeqs : MissionItem(s, c, k) /\ UNCHANGED deviceVars

\* No message arrives for longer than the upload timeout.
IdleTimeout ==
    /\ now <= MaxTime
    /\ now' = now + MissionTimeout + 1
    /\ UNCHANGED <<forwards, observed_sysids, last_addr, recent_seen,
                   recent_forwarded, out_q, lastRoute, fwdAge, notRouterVars, extVars>>

MissionRouterStep ==
    \E p \in Ports, a \in RouterAddrs : RouteOnce(p, a, FrameVehicle, FALSE) /\ UNCHANGED extVars

-----------------------------------------------------------------------------
(* Device topics: _pub_loop publishes every decoded frame to the broker, the
   broker delivers what the adapter subscribed to, on_message dispatches the
   mission messages (mqtt_adapter.py).  A topic is the tuple of its
   '/'-separated segments; a segment is a text followed by an optional
   number, so "sysid_3" is [text |-> "sysid_", num |-> <<3>>] and "3" is
   [text |-> "", num |-> <<3>>]. *)

Txt(t) == [text |-> t, num |-> <<>>]

Lbl(t, n) == [text |-> t, num |-> <<n>>]

\* The message types of the mission protocol that a vehicle sends.
DeviceMsgTypes == {"MISSION_REQUEST", "MISSION_REQUEST_INT", "MISSION_ACK",
                   "MISSION_COUNT", "MISSION_ITEM_INT"}

\* The seq or count field of the published message.
DeviceFields == {0, 1}

\* _pub_loop: device_topic_base = f"device/sysid_{sus}/compid_{suc}/{msg_type}".
DeviceTopic(sus, suc, msg_type) ==
    <<Txt("device"), Lbl("sysid_", sus), Lbl("compid_", suc), Txt(msg_type)>>

\* The topic with bare numbers, device/<sysid>/<compid>/<msg_type>, that
\* on_message's int(parts[1]), int(parts[2]) accept.
ClientTopic(sysid, compid, msg_type) ==
    <<Txt("device"), Lbl("", sysid), Lbl("", compid), Txt(msg_type)>>

\* on_connect: the topic filters the adapter subscribes to.
Subscriptions ==
    { <<Txt("command"), Txt("+"), Txt("+"), Txt("details")>>,
      <<Txt("command"), Txt("+"), Txt("+"), Txt("load_waypoints")>>,
      <<Txt("command"), Txt("+"), Txt("+"), Txt("download_mission")>>,
      <<Txt("device"), Txt("+"), Txt("+"), Txt("MISSION_REQUEST")>>,
      <<Txt("device"), Txt("+"), Txt("+"), Txt("MISSION_ACK")>> }

\* MQTT topic matching: '+' matches exactly one whole segment.
TopicMatches(filter, topic) ==
    /\ Len(filter) = Len(topic)
    /\ \A i \in 1..Len(filter) : filter[i] = Txt("+") \/ filter[i] = topic[i]

BrokerDelivers(topic) == \E f \in Subscriptions : TopicMatches(f, topic)

\* Python's int(): a segment parses only when it is digits alone.
ParseInt(seg) == IF seg.text = "" THEN seg.num ELSE <<>>

\* Python's "needle in text" over the message types of the model.
Contains(text, needle) ==
    \/ text = needle
    \/ needle = "MISSION_REQUEST" /\ text = "MISSION_REQUEST_INT"

\* on_message: the if/elif chain over the device topics.
HandlerFor(topic) ==
    IF topic[1] # Txt("device") THEN ""
    ELSE IF Contains(topic[4].text, "MISSION_REQUEST") THEN "handle_mission_request"
    ELSE IF Contains(topic[4].text, "MISSION_ACK") THEN "handle_mission_ack"
    ELSE IF Contains(topic[4].text, "MISSION_COUNT") THEN "handle_mission_count"
    ELSE IF Contains(topic[4].text, "MISSION_ITEM_INT") THEN "handle_mission_item"
    ELSE ""

\* The handler that serves a message type in MissionManager.
MatchingHandler(msg_type) ==
    CASE msg_type \in {"MISSION_REQUEST", "MISSION_REQUEST_INT"} -> "handle_mission_request"
      [] msg_type = "MISSION_ACK" -> "handle_mission_ack"
      [] msg_type = "MISSION_COUNT" -> "handle_mission_count"
      [] msg_type = "MISSION_ITEM_INT" -> "handle_mission_item"

\* client.publish(topic, ...) as the broker serves it: the message comes back
\* to the adapter's own client when one of its subscriptions matches.
Publish(origin, topic, src_sys, msg_type, k) ==
    /\ Len(mqtt_rx) <= MaxBacklog
    /\ mqtt_rx' = IF BrokerDelivers(topic)
                  THEN Append(mqtt_rx, [topic |-> topic, k |-> k, origin |-> origin,
                                        src_sys |-> src_sys])
                  ELSE mqtt_rx
    /\ lastDevice' = [stage |-> "published", origin |-> origin, src_sys |-> src_sys,
                      msg_type |-> msg_type, delivered |-> BrokerDelivers(topic),
                      handler |-> "", sysid |-> <<>>, compid |-> <<>>]
    /\ UNCHANGED <<routerVars, adapterVars, missionVars, registryVars, bridgeVars, cfg, rt, extVars>>

\* _pub_loop for one decoded frame from (src_sys, src_comp).
PubLoop(src_sys, src_comp, msg_type, k) ==
    Publish("pub_loop", DeviceTopic(src_sys, src_comp, msg_type), src_sys, msg_type, k)

PubLoopStep ==
    \E s \in MissionSysids, c \in MissionCompids, t \in DeviceMsgTypes, k \in DeviceFields :
        PubLoop(s, c, t, k)

\* Another MQTT client publishes a mission message on the bare-number topic.
ClientPublish(sysid, compid, msg_type, k) ==
    Publish("client", ClientTopic(sysid, compid, msg_type), sysid, msg_type, k)

ClientPublishStep ==
    \E s \in MissionSysids, c \in MissionCompids, t \in DeviceMsgTypes, k \in DeviceFields :
        ClientPublish(s, c, t, k)

\* on_message for a delivered device message: the handler runs only when both
\* int() calls succeed, every exception is swallowed.
OnDeviceMessage ==
    /\ mqtt_rx # <<>>
    /\ LET m == Head(mqtt_rx)
           h == HandlerFor(m.topic)
           sys == ParseInt(m.topic[2])
           comp == ParseInt(m.topic[3])
           ok == h # "" /\ sys # <<>> /\ comp # <<>>
       IN  /\ mqtt_rx' = Tail(mqtt_rx)
           /\ lastDevice' = [stage |-> "handled", origin |-> m.origin,
                             src_sys |-> m.src_sys, msg_type |-> m.topic[4].text,
                             delivered |-> TRUE,
                             handler |-> IF ok THEN h ELSE "",
                             sysid |-> IF ok THEN sys ELSE <<>>,
                             compid |-> IF ok THEN comp ELSE <<>>]
           /\ IF ~ok
              THEN UNCHANGED <<routerVars, adapterVars, missionVars, registryVars,
                               bridgeVars, cfg, rt, extVars>>
              ELSE CASE h = "handle_mission_request" -> MissionRequest(sys[1], comp[1], m.k)
                     [] h = "handle_mission_ack" -> MissionAck(sys[1], comp[1])
                     [] h = "handle_mission_count" -> MissionCount(sys[1], comp[1], m.k)
                     [] h = "handle_mission_item" -> MissionItem(sys[1], comp[1], m.k)

----------------------------------------------------------------------------
(* Device registry and transport RX loops (wayfarer core/registry.py,
   core/bridge.py, transports/mavlink_*.py, cli/main.py) *)

\* The transports cli/main.py builds, one of each class, by name.
Transports == {"udp_t", "serial_t", "general_t"}
TransportClass(t) ==
    IF t = "udp_t" THEN "MavlinkUDP"
    ELSE IF t = "serial_t" THEN "MavlinkSerial"
    ELSE "MavlinkGeneral"

\* msg.get_srcSystem() of a received message (0: the message carries no source
\* sysid) and conn.target_system of the connection it arrived on.
SrcSystems == {0, 3, 4}
TargetSystems == {0, 3}

\* DeviceRegistry.device_id_for_mav: "mav_sys<N>".
device_id_for_mav(sysid) == <<"mav_sys", sysid>>

DeviceIds == {device_id_for_mav(s) : s \in SrcSystems}

NoDevice == [known |-> FALSE, sysid |-> 0, compid |-> <<>>, transports |-> {}]

\* DeviceRegistry.upsert_mav on the store st (compid <<>> is None).
upsert_mav(st, sysid, origin_transport, compid) ==
    LET did == device_id_for_mav(sysid)
        dev == IF st[did].known THEN st[did]
               ELSE [known |-> TRUE, sysid |-> sysid, compid |-> compid,
                     transports |-> {}]
        dev1 == IF compid # <<>> THEN [dev EXCEPT !.compid = compid] ELSE dev
    IN  [st EXCEPT ![did] = [dev1 EXCEPT !.transports = @ \cup {origin_transport}]]

\* DeviceRegistry.transports_for
transports_for(device_id) ==
    IF store[device_id].known THEN store[device_id].transports ELSE {}

NoRx == [transport |-> "", src |-> 0, sysid |-> 0, discovered |-> FALSE,
         delivered |-> FALSE, reset |-> FALSE]

\* DeviceRegistry.__init__, Bridge.__init__, the transports started and connected.
InitRegistryState ==
    /\ store = [d \in DeviceIds |-> NoDevice]
    /\ connected = [t \in Transports |-> TRUE]
    /\ bridge_q = <<>>
    /\ lastRx = NoRx

\* The parameters of Bridge.on_discover_mav after self; it has no defaults.
OnDiscoverParams == <<"sysid", "origin_name">>

\* The arguments the RX loop of a transport class passes to self.on_discover.
DiscoverArgs(class, sysid, name, compid) ==
    IF class = "MavlinkGeneral" THEN <<sysid, name, compid>> ELSE <<sysid, name>>

\* "get_srcSystem() or conn.target_system or <fallback>" of the RX loops.
RxSysid(class, src, tgt) ==
    IF src # 0 THEN src
    ELSE IF tgt # 0 THEN tgt
    ELSE IF class = "MavlinkGeneral" THEN -1 ELSE 0

\* One iteration of _rx_loop of transport t that received a message with source
\* sysid src on a connection whose target_system is tgt: the on_discover call
\* (Bridge.on_discover_mav, which upserts the registry), then on_packet
\* (Bridge.on_transport_packet). For MavlinkGeneral an exception resets the
\* connection; MavlinkUDP and MavlinkSerial swallow it.
RxFrame(t, src, tgt) ==
    LET class == TransportClass(t)
        sysid == RxSysid(class, src, tgt)
        skipped == class = "MavlinkGeneral" /\ sysid < 0
        args == DiscoverArgs(class, sysid, t, <<1>>)
        raised == ~skipped /\ Len(args) # Len(OnDiscoverParams)
        ok == ~skipped /\ ~raised
    IN  /\ connected[t]
        /\ Len(bridge_q) <= MaxBacklog
        /\ store' = IF ok THEN upsert_mav(store, args[1], args[2], <<>>) ELSE store
        /\ bridge_q' = IF ok
                       THEN Append(bridge_q, [device_id |-> device_id_for_mav(sysid),
                                              origin |-> t])
                       ELSE bridge_q
        /\ connected' = IF raised /\ class = "MavlinkGeneral"
                        THEN [connected EXCEPT ![t] = FALSE]
                        ELSE connected
        /\ lastRx' = [transport |-> t, src |-> src, sysid |-> sysid,
                      discovered |-> ok, delivered |-> ok,
                      reset |-> raised /\ class = "MavlinkGeneral"]
        /\ UNCHANGED <<routerVars, adapterVars, missionVars, deviceVars, cmdVars, cfg, rt, extVars>>

RxStep == \E t \in Transports, src \in SrcSystems, tgt \in TargetSystems :
              RxFrame(t, src, tgt) /\ UNCHANGED req_rx

\* MavlinkGeneral._connect_loop: the connection is opened again when it is None.
Connect(t) ==
    /\ TransportClass(t) = "MavlinkGeneral"
    /\ ~connected[t]
    /\ connected' = [connected EXCEPT ![t] = TRUE]
    /\ UNCHANGED <<store, bridge_q, lastRx, routerVars, adapterVars, missionVars,
                   deviceVars, bridgeVars, cfg, rt, extVars>>

ConnectStep == \E t \in Transports : Connect(t)

\* Bridge._proc_loop takes the next packet off the inbound queue.
ProcStep ==
    /\ bridge_q # <<>>
    /\ bridge_q' = Tail(bridge_q)
    /\ UNCHANGED <<store, connected, lastRx, routerVars, adapterVars, missionVars,
                   deviceVars, bridgeVars, cfg, rt, extVars>>

-----------------------------------------------------------------------------
(* Bridge command path (wayfarer core/bridge.py, core/router.py,
   core/command_mapper.py, transports/mavlink_*.py): on_cmd queues a Packet,
   _route_loop writes it to the transports the routes table names, the
   transport's _tx_loop sends it on its connection. *)

\* cfg["routes"]: every transport, or one transport by name.
RoutesAll == <<[from |-> "mqtt", to |-> "*"]>>
RoutesUdp == <<[from |-> "mqtt", to |-> "udp_t"]>>
RouteConfigs == {RoutesAll, RoutesUdp}

\* fnmatch.fnmatch for the patterns of the model: "*" or a literal name.
fnmatch(name, pat) == pat = "*" \/ pat = name

\* RouteTable.outputs_for: the "to" of every route whose "from" matches.
RECURSIVE outputs_for(_, _)
outputs_for(rs, origin_name) ==
    IF rs = <<>> THEN <<>>
    ELSE (IF fnmatch(origin_name, Head(rs).from) THEN <<Head(rs).to>> ELSE <<>>)
         \o outputs_for(Tail(rs), origin_name)

\* Mission items of a MISSION_UPLOAD payload: global frame with lat/lon/alt,
\* local frame with x/y/z, and an item whose frame is neither.
UpGlobal == [frame |-> 6, lat |-> <<1>>, lon |-> <<2>>, alt |-> <<3>>,
             x |-> <<>>, y |-> <<>>, z |-> <<>>]
UpLocal == [frame |-> 3, lat |-> <<>>, lon |-> <<>>, alt |-> <<>>,
            x |-> <<4>>, y |-> <<5>>, z |-> <<6>>]
UpNoFrame == [frame |-> 0, lat |-> <<1>>, lon |-> <<2>>, alt |-> <<3>>,
              x |-> <<>>, y |-> <<>>, z |-> <<>>]

\* The MQTT messages on the command topics: the topic ("cmd" is
\* {root}/cmd/<action>, "mission_upload" is {root}/mission/upload) and the
\* payload; json FALSE is a payload that json.loads rejects.
CmdMessages ==
    { [topic |-> "cmd", json |-> FALSE, sysid |-> <<>>, msg_type |-> <<>>,
       mission_items |-> <<>>],
      [topic |-> "cmd", json |-> TRUE, sysid |-> <<3>>, msg_type |-> <<"COMMAND_LONG">>,
       mission_items |-> <<>>],
      [topic |-> "mission_upload", json |-> TRUE, sysid |-> <<3>>, msg_type |-> <<>>,
       mission_items |-> <<UpGlobal>>],
      [topic |-> "mission_upload", json |-> TRUE, sysid |-> <<3>>, msg_type |-> <<>>,
       mission_items |-> <<UpGlobal, UpLocal>>],
      [topic |-> "mission_upload", json |-> TRUE, sysid |-> <<3>>, msg_type |-> <<>>,
       mission_items |-> <<UpNoFrame, UpGlobal>>] }

NoCmd == [op |-> "", json |-> FALSE, queued |-> FALSE, ack |-> <<>>,
          device_id |-> <<>>, written |-> {}, observers |-> {}]

\* Bridge.__init__ and the transports' __init__.
InitBridgeState ==
    /\ q_out = <<>>
    /\ txq = [t \in Transports |-> <<>>]
    /\ wire = [t \in Transports |-> <<>>]
    /\ lastCmd = NoCmd
    /\ req_rx = {}

\* Bridge.on_cmd for a message on a subscribed command topic.
OnCmd(m) ==
    LET device_id == IF m.sysid # <<>> THEN <<device_id_for_mav(m.sysid[1])>> ELSE <<>>
        pkt == [device_id |-> device_id,
                msg_type |-> IF m.topic = "mission_upload" THEN "MISSION_UPLOAD"
                             ELSE IF m.msg_type # <<>> THEN m.msg_type[1]
                             ELSE "raw",
                fields |-> m,
                origin |-> "mqtt"]
    IN  /\ Len(q_out) <= MaxBacklog
        /\ \A t \in Transports : Len(wire[t]) < MaxCmds
        /\ q_out' = IF m.json THEN Append(q_out, pkt) ELSE q_out
        /\ lastCmd' = [op |-> "on_cmd", json |-> m.json, queued |-> m.json, ack |-> <<>>,
                       device_id |-> IF m.json THEN device_id ELSE <<>>,
                       written |-> {}, observers |-> {}]
        /\ UNCHANGED <<extVars, rt, cfg, routes, txq, wire, req_rx, routerVars, adapterVars, missionVars,
                       registryVars, deviceVars>>

OnCmdStep == \E m \in CmdMessages : OnCmd(m)

\* The transports _route_loop writes a packet to: for every output pattern,
\* every transport whose name matches it.
WrittenTo(outs) == {t \in Transports : \E i \in 1..Len(outs) : fnmatch(t, outs[i])}

\* The number of output patterns that match transport t (one write each).
RECURSIVE Writes(_, _)
Writes(outs, t) ==
    IF outs = <<>> THEN 0
    ELSE (IF fnmatch(t, Head(outs)) THEN 1 ELSE 0) + Writes(Tail(outs), t)

RECURSIVE Repeat(_, _)
Repeat(x, n) == IF n = 0 THEN <<>> ELSE <<x>> \o Repeat(x, n - 1)

\* One iteration of Bridge._route_loop; t.write(pkt) puts pkt on t's _txq.
RouteLoop ==
    /\ q_out # <<>>
    /\ \A t \in Transports : Len(txq[t]) <= MaxBacklog
    /\ LET pkt == Head(q_out)
           outs == outputs_for(routes, pkt.origin)
       IN  /\ q_out' = Tail(q_out)
           /\ txq' = [t \in Transports |-> txq[t] \o Repeat(pkt, Writes(outs, t))]
           /\ lastCmd' = [op |-> "route", json |-> TRUE, queued |-> FALSE, ack |-> <<>>,
                          device_id |-> pkt.device_id,
                          written |-> WrittenTo(outs),
                          observers |-> IF pkt.device_id = <<>> THEN {}
                                        ELSE transports_for(pkt.device_id[1])]
    /\ UNCHANGED <<extVars, rt, cfg, routes, wire, req_rx, routerVars, adapterVars, missionVars,
                   registryVars, deviceVars>>

\* conn.mav.mission_count_send / mission_item_int_send / command_long_send.
MavMissionCount(target_sysid, target_compid, count) ==
    [msg |-> "MISSION_COUNT", target_sys |-> target_sysid, target_comp |-> target_compid,
     seq |-> -1, count |-> count]

MavMissionItemInt(target_sysid, target_compid, seq, frame) ==
    [msg |-> "MISSION_ITEM_INT", target_sys |-> target_sysid, target_comp |-> target_compid,
     seq |-> seq, count |-> frame]

MavCommandLong(target_sysid, target_compid) ==
    [msg |-> "COMMAND_LONG", target_sys |-> target_sysid, target_comp |-> target_compid,
     seq |-> -1, count |-> 0]

\* send_command, MISSION_UPLOAD branch: the items sent for indices idx.. of the
\* list; an item without a usable frame and coordinates is skipped.
RECURSIVE UploadItems(_, _, _, _)
UploadItems(items, idx, target_sysid, target_compid) ==
    IF idx >= Len(items) THEN <<>>
    ELSE LET item == items[idx + 1]
             usable == \/ item.frame = 6 /\ item.lat # <<>> /\ item.lon # <<>> /\ item.alt # <<>>
                       \/ item.frame = 3 /\ item.x # <<>> /\ item.y # <<>> /\ item.z # <<>>
         IN  (IF usable
              THEN <<MavMissionItemInt(target_sysid, target_compid, idx, item.frame)>>
              ELSE <<>>)
             \o UploadItems(items, idx + 1, target_sysid, target_compid)

\* command_mapper.send_command: the messages one call sends on the connection.
send_command(pkt) ==
    LET target_sysid == IF pkt.fields.sysid # <<>> THEN pkt.fields.sysid
                        ELSE IF pkt.device_id # <<>> THEN <<pkt.device_id[1][2]>>
                        ELSE <<>>
        target_compid == 1
    IN  IF pkt.msg_type = "COMMAND_LONG"
        THEN IF target_sysid = <<>> THEN <<>>
             ELSE <<MavCommandLong(target_sysid[1], target_compid)>>
        ELSE IF pkt.msg_type = "MISSION_UPLOAD"
        THEN IF target_sysid = <<>> \/ pkt.fields.mission_items = <<>> THEN <<>>
             ELSE <<MavMissionCount(target_sysid[1], target_compid,
                                    Len(pkt.fields.mission_items))>>
                  \o UploadItems(pkt.fields.mission_items, 0, target_sysid[1], target_compid)
        ELSE <<>>

\* One iteration of _tx_loop of transport t. MavlinkUDP and MavlinkSerial write
\* pkt.fields["raw"] when it holds bytes, which a JSON payload never does;
\* MavlinkGeneral calls send_command on its open connection.
TxLoop(t) ==
    /\ txq[t] # <<>>
    /\ TransportClass(t) = "MavlinkGeneral" => connected[t]
    /\ txq' = [txq EXCEPT ![t] = Tail(@)]
    /\ wire' = IF TransportClass(t) = "MavlinkGeneral"
               THEN [wire EXCEPT ![t] = @ \o send_command(Head(txq[t]))]
               ELSE wire
    /\ UNCHANGED <<extVars, rt, cfg, routes, q_out, lastCmd, req_rx, routerVars, adapterVars, missionVars,
                   registryVars, deviceVars>>

TxLoopStep == \E t \in Transports : TxLoop(t)

\* The seq field of a MISSION_REQUEST a vehicle sends.
RxRequestSeqs == {0, 1}

\* _rx_loop of transport t receives MISSION_REQUEST seq from sysid 3; the
\* bridge has no handler for it beyond discovery and the inbound queue.
RxMissionRequest(t, seq) ==
    /\ RxFrame(t, 3, 0)
    /\ req_rx' = req_rx \cup {seq}

RxMissionRequestStep == \E t \in Transports, k \in RxRequestSeqs : RxMissionRequest(t, k)

-----------------------------------------------------------------------------
(* Mission round trip (Nomad backend/mav_router/mission_test.py,
   mission_uploader.py, mission_downloader.py).  A mission item is a dict, a
   function from its keys to values; a value carries its Python type, since
   json.dumps writes the int 10 as 10 and the float 10.0 as 10.0. *)

PyInt(n) == [t |-> "int", v |-> <<n>>]
PyFloat(n) == [t |-> "float", v |-> <<n>>]
PyList(xs) == [t |-> "list", v |-> xs]

\* int(x) and float(x) of a number.
to_int(val) == [t |-> "int", v |-> val.v]
to_float(val) == [t |-> "float", v |-> val.v]

\* dict.get(k, default)
DictGet(d, k, default) == IF k \in DOMAIN d THEN d[k] ELSE default

\* The ways a caller may write one mission item in the uploader's schema
\* ("seq, frame, command, x|lat, y|lon, z|alt, params"): the coordinates, the
\* parameters, the optional current/autocontinue, the type of the altitude.
\* A choice that adds no key is written as [command |-> PyInt(16)], the key
\* every item has already.
ItemCoords(zval) ==
    { [x |-> PyInt(470000000), y |-> PyInt(80000000), z |-> zval],
      [lat |-> PyInt(470000000), lon |-> PyInt(80000000), alt |-> zval] }

ItemParams ==
    { [params |-> PyList(<<0, 0, 0, 0>>)],
      [param1 |-> PyFloat(0), param2 |-> PyFloat(0), param3 |-> PyFloat(0),
       param4 |-> PyFloat(0)],
      [command |-> PyInt(16)] }

ItemFlags ==
    { [current |-> PyInt(0), autocontinue |-> PyInt(1)],
      [command |-> PyInt(16)] }

ItemFrames == {3, 6}

ItemsAt(idx) ==
    { [seq |-> PyInt(idx), frame |-> PyInt(f), command |-> PyInt(16)] @@ c @@ ps @@ fl :
        f \in ItemFrames, c \in ItemCoords(PyInt(10)) \cup ItemCoords(PyFloat(10)),
        ps \in ItemParams, fl \in ItemFlags }

\* The missions run_mission_test is given: one item, written in every way.
RtMissions == { <<it>> : it \in ItemsAt(0) }

RtIdle == [stage |-> "idle", mission |-> <<>>, vehicle |-> <<>>, downloaded |-> <<>>,
           upl_hash |-> <<>>, dl_hash |-> <<>>]

\* MissionUploader.upload_mission: the fields of the MISSION_ITEM_INT it sends
\* when the vehicle requests seq.
UploadedItem(itm, seq) ==
    LET given == "params" \in DOMAIN itm /\ itm["params"].v # <<>>
        param(i) == IF given
                    THEN (IF i <= Len(itm["params"].v)
                          THEN PyFloat(itm["params"].v[i]) ELSE PyFloat(0))
                    ELSE to_float(DictGet(itm, <<"param1", "param2", "param3", "param4">>[i],
                                          PyFloat(0)))
    IN  [seq |-> PyInt(seq),
         frame |-> to_int(DictGet(itm, "frame", PyInt(0))),
         command |-> to_int(DictGet(itm, "command", PyInt(16))),
         current |-> to_int(DictGet(itm, "current", PyInt(0))),
         autocontinue |-> to_int(DictGet(itm, "autocontinue", PyInt(1))),
         param1 |-> param(1), param2 |-> param(2), param3 |-> param(3),
         param4 |-> param(4),
         x |-> to_int(DictGet(itm, "x", DictGet(itm, "lat", PyInt(0)))),
         y |-> to_int(DictGet(itm, "y", DictGet(itm, "lon", PyInt(0)))),
         z |-> to_float(DictGet(itm, "z", DictGet(itm, "alt", PyFloat(0))))]

\* MissionDownloader.download_mission: the dict built from a received item m.
DownloadedItem(m) ==
    [seq |-> to_int(m.seq), frame |-> to_int(m.frame), command |-> to_int(m.command),
     current |-> to_int(m.current), autocontinue |-> to_int(m.autocontinue),
     param1 |-> to_float(m.param1), param2 |-> to_float(m.param2),
     param3 |-> to_float(m.param3), param4 |-> to_float(m.param4),
     x |-> to_int(m.x), y |-> to_int(m.y), z |-> to_float(m.z)]

\* mission_test._canonicalize: drop "frame", int() and float() on the numeric keys.
canonicalize(mission) ==
    [i \in 1..Len(mission) |->
        LET it == mission[i]
        IN  [k \in DOMAIN it \ {"frame"} |->
                IF k \in {"seq", "command", "x", "y"} THEN to_int(it[k])
                ELSE IF k \in {"z", "param1", "param2", "param3", "param4"}
                     THEN to_float(it[k])
                ELSE it[k]]]

\* mission_test._hash_mission: sha256 of json.dumps(canon, sort_keys=True); the
\* dump is determined by the keys, values and value types, and determines them.
hash_mission(canon) == canon

\* run_mission_test up to the end of the upload: the vehicle requested every
\* seq and holds what it was sent.
RtUpload ==
    /\ rt.stage = "start"
    /\ rt' = [rt EXCEPT !.stage = "uploaded",
                        !.vehicle = [i \in 1..Len(rt.mission) |->
                                        UploadedItem(rt.mission[i], i - 1)]]
    /\ UNCHANGED <<routerVars, adapterVars, missionVars, registryVars, deviceVars,
                   bridgeVars, cfg, extVars>>

\* The download: the vehicle returns the values it holds, under the frame it
\* was given or under another one.
RtDownload ==
    /\ rt.stage = "uploaded"
    /\ \E f \in ItemFrames \cup {0} :
          rt' = [rt EXCEPT !.stage = "downloaded",
                           !.downloaded =
                               [i \in 1..Len(rt.vehicle) |->
                                   DownloadedItem([rt.vehicle[i] EXCEPT
                                                      !.frame = IF f = 0 THEN @ ELSE PyInt(f)])]]
    /\ UNCHANGED <<routerVars, adapterVars, missionVars, registryVars, deviceVars,
                   bridgeVars, cfg, extVars>>

\* The comparison of the two hashes.
RtCompare ==
    /\ rt.stage = "downloaded"
    /\ rt' = [rt EXCEPT !.stage = "done",
                        !.upl_hash = <<hash_mission(canonicalize(rt.mission))>>,
                        !.dl_hash = <<hash_mission(canonicalize(rt.downloaded))>>]
    /\ UNCHANGED <<routerVars, adapterVars, missionVars, registryVars, deviceVars,
                   bridgeVars, cfg, extVars>>

----------------------------------------------------------------------------
(* Telemetry path (Nomad backend/mav_router/transport.py, router.py,
   mqtt_adapter.py _pub_loop) *)

\* The highest sequence number the vehicle sends and the reads of one behaviour.
MaxSeq == 2
MaxReads == 3

TelemPort == "udp_14550"
GcsPort == "udp_14560"

\* A read is a sequence of pieces: a whole frame or one half of a frame of
\* system sys with sequence number n.
Piece(part, sys, n) == [part |-> part, sys |-> sys, n |-> n]

\* The bytes of a piece: a v1 HEARTBEAT frame <<0xFE, len, seq, sysid, compid,
\* msgid>> of the vehicle, cut after the seq byte, or the GCS frame.
PieceBytes(pc) ==
    IF pc.sys = 251 THEN FrameGcs
    ELSE CASE pc.part = "whole" -> <<254, 0, pc.n, pc.sys, 1, 0>>
           [] pc.part = "head" -> <<254, 0, pc.n>>
           [] pc.part = "tail" -> <<pc.sys, 1, 0>>

\* The datagram recvfrom returns for a read.
RECURSIVE ReadBytes(_)
ReadBytes(read) ==
    IF read = <<>> THEN <<>> ELSE PieceBytes(Head(read)) \o ReadBytes(Tail(read))

\* What the vehicle can send next: its next frame whole, the last whole frame
\* once more, its next two frames in one datagram, or its next frame in two
\* datagrams.
SenderReads(s) ==
    IF s.half THEN {<<Piece("tail", 3, s.seq)>>}
    ELSE (IF s.seq <= MaxSeq
          THEN {<<Piece("whole", 3, s.seq)>>, <<Piece("head", 3, s.seq)>>} ELSE {})
         \cup (IF s.seq > 0 THEN {<<Piece("whole", 3, s.seq - 1)>>} ELSE {})
         \cup (IF s.seq + 1 <= MaxSeq
               THEN {<<Piece("whole", 3, s.seq), Piece("whole", 3, s.seq + 1)>>}
               ELSE {})

RECURSIVE SenderAfter(_, _)
SenderAfter(s, read) ==
    IF read = <<>> THEN s
    ELSE LET pc == Head(read)
             s1 == CASE pc.part = "head" -> [s EXCEPT !.half = TRUE]
                     [] pc.part = "tail" -> [seq |-> s.seq + 1, half |-> FALSE]
                     [] pc.part = "whole" -> [s EXCEPT !.seq = IF pc.n = s.seq THEN @ + 1 ELSE @]
         IN  SenderAfter(s1, Tail(read))

GcsRead == <<Piece("whole", 251, 0)>>

\* Every datagram of the model.
TelemData ==
    {ReadBytes(r) : r \in UNION {SenderReads([seq |-> n, half |-> h]) :
                                    n \in 0..(MaxSeq + 1), h \in BOOLEAN}}
        \cup {FrameGcs}

\* Queue.get: the oldest item and the queue without it.
QueueGet_Newest(q) == [item |-> q[Len(q)], rest |-> SubSeq(q, 1, Len(q) - 1)]

QueueGet(q) == [item |-> Head(q), rest |-> Tail(q)]

\* udp_port_process, receive half: the datagram goes on router_in_q and a copy
\* on mqtt_pub_q (both unbounded).
UdpReceive(name, read, sender1) ==
    /\ Len(rx_log) < MaxReads
    /\ LET idx == Len(rx_log) + 1
       IN  /\ router_in_q' = Append(router_in_q,
                                    [port |-> name, addr |-> "peerA",
                                     data |-> ReadBytes(read), idx |-> idx])
           /\ mqtt_pub_q' = Append(mqtt_pub_q, [name |-> name, read |-> read, idx |-> idx])
           /\ rx_log' = Append(rx_log, [port |-> name, read |-> read, time |-> now])
    /\ sender' = sender1
    /\ UNCHANGED <<mav_parsers, msg_obj, enq_log, pub_log, routerVars, notRouterVars,
                   threadVars>>

UdpReceiveStep ==
    \/ \E read \in SenderReads(sender) :
          UdpReceive(TelemPort, read, SenderAfter(sender, read))
    \/ /\ \A i \in 1..Len(rx_log) : rx_log[i].port # GcsPort
       /\ UdpReceive(GcsPort, GcsRead, sender)

\* Router.run: route_once on the item router_in_q.get returns.
TelemRoute ==
    /\ router_in_q # <<>>
    /\ LET g == QueueGet(router_in_q)
       IN  /\ RouteOnce(g.item.port, g.item.addr, g.item.data, FALSE)
           /\ router_in_q' = g.rest
           /\ enq_log' = [p \in Ports |->
                            enq_log[p] \o [k \in 1..(Len(out_q'[p]) - Len(out_q[p])) |->
                                              g.item.idx]]
    /\ UNCHANGED <<mqtt_pub_q, mav_parsers, msg_obj, sender, rx_log, pub_log, threadVars>>

\* parser.parse_char over the bytes of one read: held is the half frame the
\* parser keeps between reads, msgs the messages it completes, each marked with
\* the read that completed it.
RECURSIVE ParseRead(_, _, _, _)
ParseRead(held, read, idx, msgs) ==
    IF read = <<>> THEN [held |-> held, messages |-> msgs]
    ELSE LET pc == Head(read)
             m == [sys |-> pc.sys, n |-> pc.n, idx |-> idx]
         IN  CASE pc.part = "whole" -> ParseRead(<<>>, Tail(read), idx, Append(msgs, m))
               [] pc.part = "head" -> ParseRead(<<[sys |-> pc.sys, n |-> pc.n]>>,
                                                Tail(read), idx, msgs)
               [] pc.part = "tail" ->
                    IF held = <<[sys |-> pc.sys, n |-> pc.n]>>
                    THEN ParseRead(<<>>, Tail(read), idx, Append(msgs, m))
                    ELSE ParseRead(<<>>, Tail(read), idx, msgs)

\* The header sysid the RAW topic is built from ("src_sys or 0").
RawSysid(data) ==
    LET sc == parse_sysid_compid(data) IN IF sc = <<>> THEN 0 ELSE sc[1]

\* One iteration of _pub_loop with the pymavlink parser available: the read is
\* fed to the transport's parser, msg_obj is left at the last message of the
\* read, and the statements after the "for msg_obj in messages" loop publish
\* msg_obj on its device topic; a read that completed no message is published
\* on the RAW topic as well.
PubLoopRead ==
    /\ mqtt_pub_q # <<>>
    /\ LET g == QueueGet(mqtt_pub_q)
           name == g.item.name
           parsed == ParseRead(mav_parsers[name], g.item.read, g.item.idx, <<>>)
           decoded_any == parsed.messages # <<>>
           obj == IF decoded_any THEN <<parsed.messages[Len(parsed.messages)]>>
                  ELSE msg_obj
           device == IF obj = <<>> THEN <<>>
                     ELSE <<[topic |-> "device", sys |-> obj[1].sys, n |-> obj[1].n,
                             from |-> obj[1].idx, read |-> g.item.idx, port |-> name]>>
           raw == IF decoded_any THEN <<>>
                  ELSE <<[topic |-> "RAW", sys |-> RawSysid(ReadBytes(g.item.read)),
                          n |-> 0, from |-> g.item.idx, read |-> g.item.idx,
                          port |-> name]>>
       IN  /\ mqtt_pub_q' = g.rest
           /\ mav_parsers' = [mav_parsers EXCEPT ![name] = parsed.held]
           /\ msg_obj' = obj
           /\ pub_log' = pub_log \o device \o raw
    /\ UNCHANGED <<router_in_q, sender, rx_log, enq_log, routerVars, notRouterVars,
                   threadVars>>

\* No datagram has been received.
InitTelemState ==
    /\ router_in_q = <<>>
    /\ mqtt_pub_q = <<>>
    /\ mav_parsers = [p \in Ports |-> <<>>]
    /\ msg_obj = <<>>
    /\ sender = [seq |-> 0, half |-> FALSE]
    /\ rx_log = <<>>
    /\ enq_log = [p \in Ports |-> <<>>]
    /\ pub_log = <<>>

----------------------------------------------------------------------------
(* Transport worker threads (wayfarer transports/mavlink_general.py,
   mavlink_serial.py, mavlink_udp.py) and DeviceRegistry.upsert_mav statement
   by statement (core/registry.py) *)

\* MavlinkGeneral creates self._io_lock; MavlinkSerial and MavlinkUDP have none.
HasIoLock(t) == TransportClass(t) = "MavlinkGeneral"

\* "if not conn: continue" under the lock, with the test left out.
HasConn_Always(c) == TRUE

\* "if not conn: continue" under the lock.
HasConn(c) == c = "open"

\* _connect_loop, "if self._conn is None": one open attempt, which succeeds or
\* raises ("open failed; retry in 1s").
CoOpen(t, ok) ==
    /\ HasIoLock(t)
    /\ t_run[t]
    /\ co_pc[t] = "check"
    /\ io_conn[t] = "none"
    /\ co_pc' = [co_pc EXCEPT ![t] = IF ok THEN "opened" ELSE "check"]
    /\ UNCHANGED <<t_run, io_conn, io_lock, rx_pc, tx_pc, upsertVars, stopVars, telemVars, routerVars, notRouterVars>>

\* _connect_loop, "with self._io_lock: self._conn = conn; self._connected.set()".
CoSet(t) ==
    /\ co_pc[t] = "opened"
    /\ io_lock[t] = ""
    /\ io_conn' = [io_conn EXCEPT ![t] = "open"]
    /\ co_pc' = [co_pc EXCEPT ![t] = "check"]
    /\ UNCHANGED <<t_run, io_lock, rx_pc, tx_pc, upsertVars, stopVars, telemVars, routerVars, notRouterVars>>

\* _rx_loop of MavlinkGeneral: self._connected.wait returned True.
RxWait(t) ==
    /\ HasIoLock(t)
    /\ t_run[t]
    /\ rx_pc[t] = "wait"
    /\ io_conn[t] = "open"
    /\ rx_pc' = [rx_pc EXCEPT ![t] = "lock"]
    /\ UNCHANGED <<t_run, io_conn, io_lock, co_pc, tx_pc, upsertVars, stopVars, telemVars, routerVars, notRouterVars>>

\* _rx_loop enters recv_match: MavlinkGeneral under its lock and only with a
\* connection, MavlinkSerial and MavlinkUDP at once.
RxEnter(t) ==
    /\ IF HasIoLock(t)
       THEN /\ rx_pc[t] = "lock"
            /\ io_lock[t] = ""
            /\ IF HasConn(io_conn[t])
               THEN /\ io_lock' = [io_lock EXCEPT ![t] = "rx"]
                    /\ rx_pc' = [rx_pc EXCEPT ![t] = "reading"]
               ELSE /\ rx_pc' = [rx_pc EXCEPT ![t] = "wait"]
                    /\ UNCHANGED io_lock
       ELSE /\ t_run[t]
            /\ rx_pc[t] = "wait"
            /\ rx_pc' = [rx_pc EXCEPT ![t] = "reading"]
            /\ UNCHANGED io_lock
    /\ UNCHANGED <<t_run, io_conn, co_pc, tx_pc, upsertVars, stopVars, telemVars, routerVars, notRouterVars>>

\* recv_match returns None after its timeout, returns a message, or raises;
\* MavlinkSerial and MavlinkUDP swallow the exception.
RxReturn(t, outcome) ==
    /\ rx_pc[t] = "reading"
    /\ io_lock' = [io_lock EXCEPT ![t] = ""]
    /\ rx_pc' = [rx_pc EXCEPT ![t] =
                    CASE outcome = "msg" -> "handle"
                      [] outcome = "none" -> "wait"
                      [] outcome = "error" -> IF HasIoLock(t) THEN "reset" ELSE "wait"]
    /\ UNCHANGED <<t_run, io_conn, co_pc, tx_pc, upsertVars, stopVars, telemVars, routerVars, notRouterVars>>

\* The sysid of the frames the worker threads receive.
UpSysid == 3

\* self.on_discover(...) reaches Bridge.on_discover_mav and upsert_mav, whose
\* first statement "dev = self._store.get(did, {...})" yields the stored dict or
\* a new one (named after the thread that made it; its first_seen is that
\* thread's). The three-argument call of MavlinkGeneral raises.
RxDiscover(t) ==
    LET args == DiscoverArgs(TransportClass(t), UpSysid, t, <<1>>)
        raised == Len(args) # Len(OnDiscoverParams)
        fresh == up_store = ""
    IN  /\ rx_pc[t] = "handle"
        /\ IF raised
           THEN /\ rx_pc' = [rx_pc EXCEPT ![t] = IF HasIoLock(t) THEN "reset" ELSE "wait"]
                /\ UNCHANGED upsertVars
           ELSE /\ rx_pc' = [rx_pc EXCEPT ![t] = "add"]
                /\ up_dev' = [up_dev EXCEPT ![t] = IF fresh THEN t ELSE up_store]
                /\ up_heap' = IF fresh THEN [up_heap EXCEPT ![t] = {}] ELSE up_heap
                /\ up_hist' = [up_hist EXCEPT !.first = IF @ = "" THEN t ELSE @]
                /\ UNCHANGED up_store
        /\ UNCHANGED <<t_run, io_conn, io_lock, co_pc, tx_pc, stopVars, telemVars, routerVars, notRouterVars>>

\* upsert_mav, dev["transports"].add(origin_transport).
UpsertAdd(t) ==
    /\ rx_pc[t] = "add"
    /\ up_heap' = [up_heap EXCEPT ![up_dev[t]] = @ \cup {t}]
    /\ rx_pc' = [rx_pc EXCEPT ![t] = "put"]
    /\ UNCHANGED <<t_run, io_conn, io_lock, co_pc, tx_pc, up_dev, up_store, up_hist,
                   stopVars, telemVars, routerVars, notRouterVars>>

\* upsert_mav, self._store[did] = dev; then on_packet and the next iteration.
UpsertPut(t) ==
    /\ rx_pc[t] = "put"
    /\ up_store' = up_dev[t]
    /\ up_hist' = [up_hist EXCEPT !.done = @ \cup {t}]
    /\ rx_pc' = [rx_pc EXCEPT ![t] = "wait"]
    /\ UNCHANGED <<t_run, io_conn, io_lock, co_pc, tx_pc, up_dev, up_heap, stopVars, telemVars, routerVars, notRouterVars>>

\* The except branch of _rx_loop and of _tx_loop: under the lock, close the
\* connection, self._conn = None, self._connected.clear().
ResetConn(t) ==
    /\ io_lock[t] = ""
    /\ io_conn' = [io_conn EXCEPT ![t] = "none"]

RxReset(t) ==
    /\ rx_pc[t] = "reset"
    /\ ResetConn(t)
    /\ rx_pc' = [rx_pc EXCEPT ![t] = "wait"]
    /\ UNCHANGED <<t_run, io_lock, co_pc, tx_pc, upsertVars, stopVars, telemVars, routerVars, notRouterVars>>

\* _tx_loop took a packet off _txq (MavlinkGeneral: after _connected.wait).
TxTake(t) ==
    /\ t_run[t]
    /\ tx_pc[t] = "wait"
    /\ HasIoLock(t) => io_conn[t] = "open"
    /\ tx_pc' = [tx_pc EXCEPT ![t] = "lock"]
    /\ UNCHANGED <<t_run, io_conn, io_lock, co_pc, rx_pc, upsertVars, stopVars, telemVars, routerVars, notRouterVars>>

\* _tx_loop enters conn.write / send_command: MavlinkGeneral under its lock and
\* only with a connection; MavlinkSerial and MavlinkUDP write a packet that
\* carries raw bytes at once and drop any other.
TxEnter(t, raw) ==
    /\ tx_pc[t] = "lock"
    /\ IF HasIoLock(t)
       THEN /\ io_lock[t] = ""
            /\ IF HasConn(io_conn[t])
               THEN /\ io_lock' = [io_lock EXCEPT ![t] = "tx"]
                    /\ tx_pc' = [tx_pc EXCEPT ![t] = "writing"]
               ELSE /\ tx_pc' = [tx_pc EXCEPT ![t] = "wait"]
                    /\ UNCHANGED io_lock
       ELSE /\ tx_pc' = [tx_pc EXCEPT ![t] = IF raw THEN "writing" ELSE "wait"]
            /\ UNCHANGED io_lock
    /\ UNCHANGED <<t_run, io_conn, co_pc, rx_pc, upsertVars, stopVars, telemVars, routerVars, notRouterVars>>

\* The write returns or raises; MavlinkSerial and MavlinkUDP swallow the
\* exception.
TxReturn(t, ok) ==
    /\ tx_pc[t] = "writing"
    /\ io_lock' = [io_lock EXCEPT ![t] = ""]
    /\ tx_pc' = [tx_pc EXCEPT ![t] = IF ~ok /\ HasIoLock(t) THEN "reset" ELSE "wait"]
    /\ UNCHANGED <<t_run, io_conn, co_pc, rx_pc, upsertVars, stopVars, telemVars, routerVars, notRouterVars>>

TxReset(t) ==
    /\ tx_pc[t] = "reset"
    /\ ResetConn(t)
    /\ tx_pc' = [tx_pc EXCEPT ![t] = "wait"]
    /\ UNCHANGED <<t_run, io_lock, co_pc, rx_pc, upsertVars, stopVars, telemVars, routerVars, notRouterVars>>

\* The steps of the worker threads of transport t.
WorkerStep(t) ==
    \/ \E ok \in BOOLEAN : CoOpen(t, ok)
    \/ CoSet(t)
    \/ RxWait(t)
    \/ RxEnter(t)
    \/ \E outcome \in {"msg", "none", "error"} : RxReturn(t, outcome)
    \/ RxDiscover(t)
    \/ UpsertAdd(t)
    \/ UpsertPut(t)
    \/ RxReset(t)
    \/ TxTake(t)
    \/ \E raw \in BOOLEAN : TxEnter(t, raw)
    \/ \E ok \in BOOLEAN : TxReturn(t, ok)
    \/ TxReset(t)

\* start(): MavlinkSerial and MavlinkUDP open their connection in start,
\* MavlinkGeneral leaves it to _connect_loop; the registry is empty.
InitThreadState ==
    /\ t_run = [t \in Transports |-> TRUE]
    /\ io_conn = [t \in Transports |-> IF HasIoLock(t) THEN "none" ELSE "open"]
    /\ io_lock = [t \in Transports |-> ""]
    /\ co_pc = [t \in Transports |-> "check"]
    /\ rx_pc = [t \in Transports |-> "wait"]
    /\ tx_pc = [t \in Transports |-> "wait"]
    /\ up_dev = [t \in Transports |-> ""]
    /\ up_store = ""
    /\ up_heap = [t \in Transports |-> {}]
    /\ up_hist = [first |-> "", done |-> {}]

\* The capacity of Bridge.q and Bridge.q_out (Queue(maxsize=10000) in the code).
QCap == 2

\* The worker threads Bridge.start creates; the first two block on a queue.
Workers == {"proc", "route", "heartbeat", "gcs"}
QueueWorkers == {"proc", "route"}

\* The loop test "while self._run" without the flag.
StillRunning_Always(run) == TRUE

\* The loop test "while self._run" of the Bridge workers.
StillRunning(run) == run

\* queue.put_nowait: the item is dropped when the queue is full.
PutNowait(q, item) == IF Len(q) < QCap THEN Append(q, item) ELSE q

\* A Bridge worker evaluates its loop test. The body of _heartbeat_loop
\* (publish, sleep) touches neither queue, so its iteration is one step with
\* the test.
LoopCheck(w) ==
    /\ wk_pc[w] = "check"
    /\ wk_pc' = [wk_pc EXCEPT ![w] = IF ~StillRunning(b_run) THEN "exited"
                                      ELSE IF w = "heartbeat" THEN "check" ELSE "body"]
    /\ UNCHANGED <<b_run, stop_pc, bq, ioVars, upsertVars, telemVars, routerVars,
                   notRouterVars>>

\* _proc_loop and _route_loop: the blocking get returns the oldest item; None
\* ends the loop, a packet is published or written to the transports.
QueueTake(w) ==
    /\ w \in QueueWorkers
    /\ wk_pc[w] = "body"
    /\ bq[w] # <<>>
    /\ LET g == QueueGet(bq[w])
       IN  /\ bq' = [bq EXCEPT ![w] = g.rest]
           /\ wk_pc' = [wk_pc EXCEPT ![w] = IF g.item = "None" THEN "exited" ELSE "check"]
    /\ UNCHANGED <<b_run, stop_pc, ioVars, upsertVars, telemVars, routerVars,
                   notRouterVars>>

\* _gcs_loop: put_nowait of its two packets on q_out and on q, then sleep.
Beat(w) ==
    /\ w = "gcs"
    /\ wk_pc[w] = "body"
    /\ wk_pc' = [wk_pc EXCEPT ![w] = "check"]
    /\ bq' = [x \in QueueWorkers |-> PutNowait(PutNowait(bq[x], "pkt"), "pkt")]
    /\ UNCHANGED <<b_run, stop_pc, ioVars, upsertVars, telemVars, routerVars,
                   notRouterVars>>

\* Bridge.stop, "self._run = False".
StopFlag ==
    /\ stop_pc = "running"
    /\ b_run' = FALSE
    /\ stop_pc' = "transports"
    /\ UNCHANGED <<bq, wk_pc, ioVars, upsertVars, telemVars, routerVars, notRouterVars>>

\* Bridge.stop, "t.stop()" for every transport: each sets its _run to False.
StopTransports ==
    /\ stop_pc = "transports"
    /\ t_run' = [t \in Transports |-> FALSE]
    /\ stop_pc' = "close"
    /\ UNCHANGED <<io_conn, io_lock, co_pc, rx_pc, tx_pc, b_run, bq, wk_pc, upsertVars,
                   telemVars, routerVars, notRouterVars>>

\* MavlinkGeneral.stop, "with self._io_lock": close, self._conn = None,
\* self._connected.clear(); the joins that follow time out after 2 s.
StopClose ==
    /\ stop_pc = "close"
    /\ \A t \in Transports : HasIoLock(t) => io_lock[t] = ""
    /\ io_conn' = [t \in Transports |-> IF HasIoLock(t) THEN "none" ELSE io_conn[t]]
    /\ stop_pc' = "sentinel"
    /\ UNCHANGED <<t_run, io_lock, co_pc, rx_pc, tx_pc, b_run, bq, wk_pc, upsertVars,
                   telemVars, routerVars, notRouterVars>>

\* Bridge.stop, the two put_nowait(None), each best effort; the joins that
\* follow time out after 2 s each.
StopSentinel ==
    /\ stop_pc = "sentinel"
    /\ bq' = [x \in QueueWorkers |-> PutNowait(bq[x], "None")]
    /\ stop_pc' = "done"
    /\ UNCHANGED <<b_run, wk_pc, ioVars, upsertVars, telemVars, routerVars,
                   notRouterVars>>

\* A transport thread finds its loop test "while self._run" false.
CoExit(t) ==
    /\ co_pc[t] = "check"
    /\ HasIoLock(t)
    /\ ~t_run[t]
    /\ co_pc' = [co_pc EXCEPT ![t] = "exited"]
    /\ UNCHANGED <<t_run, io_conn, io_lock, rx_pc, tx_pc, upsertVars, stopVars, telemVars,
                   routerVars, notRouterVars>>

RxExit(t) ==
    /\ rx_pc[t] = "wait"
    /\ ~t_run[t]
    /\ rx_pc' = [rx_pc EXCEPT ![t] = "exited"]
    /\ UNCHANGED <<t_run, io_conn, io_lock, co_pc, tx_pc, upsertVars, stopVars, telemVars,
                   routerVars, notRouterVars>>

TxExit(t) ==
    /\ tx_pc[t] = "wait"
    /\ ~t_run[t]
    /\ tx_pc' = [tx_pc EXCEPT ![t] = "exited"]
    /\ UNCHANGED <<t_run, io_conn, io_lock, co_pc, rx_pc, upsertVars, stopVars, telemVars,
                   routerVars, notRouterVars>>

\* Bridge.__init__ and start(): the Bridge runs, its queues are empty.
InitStopState ==
    /\ b_run = TRUE
    /\ stop_pc = "running"
    /\ bq = [w \in QueueWorkers |-> <<>>]
    /\ wk_pc = [w \in Workers |-> "check"]

----------------------------------------------------------------------------
(* Hand-off queues *)

\* The most items an unbounded queue holds in the model.
MaxHeld == 2

\* The most puts on a full queue the history counts for one queue.
MaxDrops == 1

\* Bridge.q and Bridge.q_out, the _txq of a transport, and the queues of the
\* Nomad router: a port's out_q, router_in_q and mqtt_pub_q.
BoundedQueues == {"q", "q_out", "txq"}
UnboundedQueues == {"out_q", "router_in_q", "mqtt_pub_q"}
HandOffQueues == BoundedQueues \cup UnboundedQueues

\* The maxsize the queue is constructed with: Queue(maxsize=10000) for the
\* Bridge queues and Queue(maxsize=1024) for _txq, both QCap here; Queue() is
\* maxsize 0, which Python takes as "no limit".
QueueMaxsize(k) == IF k \in BoundedQueues THEN QCap ELSE 0

\* Queue.full().
QueueFull(k, q) == QueueMaxsize(k) > 0 /\ Len(q) >= QueueMaxsize(k)

\* The number of dropped packets the code counts for queue k: every except
\* branch around a put is "pass", no counter exists.
DropCounter(k) == 0

\* The packets the environment hands to a queue; two kinds where a put can be
\* refused, so that the packet dropped can be told from the packets kept.
QueueItems(k) == IF k \in BoundedQueues THEN {"a", "b"} ELSE {"a"}

\* on_transport_packet, on_cmd and Transport.write: put_nowait inside
\* "try ... except Exception: pass". The router and the port processes: put
\* or put_nowait on a queue without limit.
PutPacket(k, item) ==
    /\ k \in UnboundedQueues => Len(hq[k]) < MaxHeld
    /\ QueueFull(k, hq[k]) => full_puts[k] < MaxDrops
    /\ hq' = [hq EXCEPT ![k] = IF QueueFull(k, @) THEN @ ELSE Append(@, item)]
    /\ full_puts' = [full_puts EXCEPT ![k] = IF QueueFull(k, hq[k]) THEN @ + 1 ELSE @]
    /\ UNCHANGED <<txIdVars, hbVars, pendVars, snapVars, telemVars, threadVars,
                   routerVars, adapterVars, missionVars,
                   registryVars, deviceVars, bridgeVars, cfg, rt>>

\* The consumer of the queue takes the oldest item.
TakePacket(k) ==
    /\ hq[k] # <<>>
    /\ hq' = [hq EXCEPT ![k] = QueueGet(@).rest]
    /\ UNCHANGED <<full_puts, txIdVars, hbVars, pendVars, snapVars, telemVars, threadVars,
                   routerVars, adapterVars, missionVars,
                   registryVars, deviceVars, bridgeVars, cfg, rt>>

InitQueueState ==
    /\ hq = [k \in HandOffQueues |-> <<>>]
    /\ full_puts = [k \in HandOffQueues |-> 0]

----------------------------------------------------------------------------
(* Source identity of outbound frames *)

\* The identity mavutil gives a connection it has just opened.
FreshIdentity == [source_system |-> 255, source_component |-> 0]

\* The identities set_source_identity may have stored before start().
SourceIdentities == {[sysid |-> s, compid |-> c] : s \in {<<>>, <<250>>}, c \in {<<>>, <<190>>}}

\* The non-raw packets handed to _tx_loop: the message type, the identity of the
\* Packet, the identity in its fields, and the device id ("mav_sys5" or one
\* that names no MAVLink system).
TxPackets ==
    { [msg_type |-> mt, src_sysid |-> p[1], src_compid |-> p[2], f_src_sysid |-> f[1],
       f_src_compid |-> f[2], f_compid |-> fc, device_sys |-> d] :
        mt \in {"HEARTBEAT", "REQUEST_DATA_STREAM", "COMMAND_LONG"},
        p \in {<< <<>>, <<>> >>, << <<3>>, <<>> >>, << <<3>>, <<7>> >>},
        f \in {<< <<>>, <<>> >>, << <<4>>, <<>> >>, << <<4>>, <<8>> >>},
        fc \in {<<>>, <<9>>}, d \in {<<>>, <<5>>} }

\* The packet carries a source identity of its own: on the Packet, in its
\* fields, or in its device id.
OwnIdentity(pkt) ==
    \/ pkt.src_sysid # <<>> \/ pkt.src_compid # <<>>
    \/ pkt.f_src_sysid # <<>> \/ pkt.f_src_compid # <<>>
    \/ pkt.device_sys # <<>>

\* "if x is not None: conn.attr = x".
SetIfGiven(old, opt) == IF opt = <<>> THEN old ELSE opt[1]

\* _connect_loop and set_source_identity: the stored identity is applied to a
\* new connection.
ApplyIdentity(conn, ident) ==
    [source_system |-> SetIfGiven(conn.source_system, ident.sysid),
     source_component |-> SetIfGiven(conn.source_component, ident.compid)]

\* send_command, branches HEARTBEAT and REQUEST_DATA_STREAM: the identity the
\* frame is sent with. src_sys comes from fields["src_sysid"], else from a
\* device id "mav_sys<n>"; src_comp from fields["src_compid"], else
\* fields.get("compid", 1).
SendIdentity(conn, pkt) ==
    LET src_sys == IF pkt.f_src_sysid # <<>> THEN pkt.f_src_sysid ELSE pkt.device_sys
        src_comp == IF pkt.f_src_compid # <<>> THEN pkt.f_src_compid
                    ELSE <<GetOr(pkt.f_compid, 1)>>
    IN  [source_system |-> SetIfGiven(conn.source_system, src_sys),
         source_component |-> SetIfGiven(conn.source_component, src_comp)]

\* send_command: [wire |-> the identity of the connection at the send call,
\* conn |-> the connection when send_command returns]. The two branches above
\* save the identity on entry and restore it in "finally"; the other message
\* types send with the connection as it is.
send_command_identity(conn, pkt) ==
    IF pkt.msg_type \in {"HEARTBEAT", "REQUEST_DATA_STREAM"}
    THEN [wire |-> SendIdentity(conn, pkt), conn |-> conn]
    ELSE [wire |-> conn, conn |-> conn]

\* _tx_loop, non-raw branch (lines 261-279): the effective identity, the one of
\* the Packet or else the stored one, is assigned to the live connection
\* before send_command is called.
TxIdentity(conn, pkt, ident) ==
    ApplyIdentity(conn, [sysid |-> IF pkt.src_sysid # <<>> THEN pkt.src_sysid ELSE ident.sysid,
                         compid |-> IF pkt.src_compid # <<>> THEN pkt.src_compid
                                    ELSE ident.compid])

NoTx == [sent |-> FALSE, pkt |-> <<>>, before |-> <<>>, wire |-> <<>>, after |-> <<>>,
         prev_own |-> FALSE]

\* One iteration of _tx_loop on a non-raw packet: the send succeeds, or the
\* send call raises and the except branch drops the connection.
TxSendPacket(pkt, ok) ==
    /\ conn_id # <<>>
    /\ LET c1 == TxIdentity(conn_id[1], pkt, src_identity)
           r == send_command_identity(c1, pkt)
       IN  /\ conn_id' = IF ok THEN <<r.conn>> ELSE <<>>
           /\ lastTx' = [sent |-> ok, pkt |-> <<pkt>>, before |-> conn_id,
                         wire |-> <<r.wire>>, after |-> IF ok THEN <<r.conn>> ELSE <<>>,
                         prev_own |-> /\ lastTx.sent
                                      /\ lastTx.pkt[1].msg_type # "COMMAND_LONG"
                                      /\ OwnIdentity(lastTx.pkt[1])]
    /\ UNCHANGED <<src_identity, queueVars, hbVars, pendVars, snapVars, telemVars, threadVars,
                   routerVars, adapterVars,
                   missionVars, registryVars, deviceVars, bridgeVars, cfg, rt>>

\* _connect_loop: a new connection is opened and the stored identity applied.
TxReopen ==
    /\ conn_id = <<>>
    /\ conn_id' = <<ApplyIdentity(FreshIdentity, src_identity)>>
    /\ lastTx' = NoTx
    /\ UNCHANGED <<src_identity, queueVars, hbVars, pendVars, snapVars, telemVars, threadVars,
                   routerVars, adapterVars,
                   missionVars, registryVars, deviceVars, bridgeVars, cfg, rt>>

InitTxIdState ==
    /\ src_identity = [sysid |-> <<>>, compid |-> <<>>]
    /\ conn_id = <<>>
    /\ lastTx = NoTx

----------------------------------------------------------------------------
(* GCS heartbeat generator *)

\* The ports of the configuration: a serial transport, a UDP listener, and a
\* UDP port created for the endpoint "ep0" (udp://127.0.0.1:14560).
HbPorts == {"serial0", "udp0", "ep0"}

\* cfg['transports']: the type of each transport that is listed there.
HbTransportType == [p \in {"serial0", "udp0"} |-> IF p = "serial0" THEN "serial" ELSE "udp"]

\* An address is a pair; its second part is the integer port of a UDP peer or
\* the device string of a serial port.
UdpAddr(host, port) == [host |-> host, num |-> TRUE, port |-> port, device |-> ""]
SerialAddr(device) == [host |-> "serial", num |-> FALSE, port |-> 0, device |-> device]

\* cfg['endpoints'] through parse_endpoint_uri.
HbEndpoints == [p \in {"ep0"} |-> UdpAddr("127.0.0.1", 14560)]

\* The src_addr a transport process puts on router_in_q with what it read.
HbSrcAddrs(p) ==
    IF p \in DOMAIN HbTransportType /\ HbTransportType[p] = "serial"
    THEN {SerialAddr("/dev/ttyUSB0")}
    ELSE {UdpAddr("10.0.0.2", 14550), UdpAddr("10.0.0.3", 14551)}

\* _collect_dest_for_port: <<>> is None.
collect_dest_for_port(port_name, last) ==
    IF last[port_name] # <<>> THEN last[port_name]
    ELSE IF port_name \in DOMAIN HbEndpoints THEN <<HbEndpoints[port_name]>>
    ELSE <<>>

\* The entry one port gets in a tick of _loop: <<>> when nothing is put,
\* else <<[dest, data]>> with dest <<>> for None. With a destination the entry
\* is ((dest[0], int(dest[1])), hb); int() of a device string raises
\* ValueError and the except branch puts nothing.
HbEntry(pname, last) ==
    LET dest == collect_dest_for_port(pname, last)
    IN  IF dest = <<>>
        THEN IF pname \in DOMAIN HbTransportType /\ HbTransportType[pname] = "serial"
             THEN <<[dest |-> <<>>, data |-> "HEARTBEAT"]>>
             ELSE <<>>
        ELSE IF dest[1].num
             THEN <<[dest |-> dest, data |-> "HEARTBEAT"]>>
             ELSE <<>>

\* One pass of the while loop of _loop: the heartbeat is encoded (when that
\* raises the tick is skipped), then every port is handled in turn.
HbTick(encoded) ==
    /\ \A p \in HbPorts : Len(hb_out_q[p]) < MaxHeld
    /\ hb_out_q' = [p \in HbPorts |->
                      IF encoded THEN hb_out_q[p] \o HbEntry(p, hb_last_addr) ELSE hb_out_q[p]]
    /\ lastTick' = [ticked |-> TRUE, encoded |-> encoded, last |-> hb_last_addr,
                    put |-> [p \in HbPorts |->
                               IF encoded THEN HbEntry(p, hb_last_addr) ELSE <<>>]]
    /\ UNCHANGED <<hb_last_addr, queueVars, txIdVars, pendVars, snapVars, telemVars, threadVars,
                   routerVars,
                   adapterVars, missionVars, registryVars, deviceVars, bridgeVars, cfg, rt>>

\* Router.route_once on a frame whose header parses: the port's last_addr is
\* the src_addr of the read.
HbObserve(p, src_addr) ==
    /\ hb_last_addr' = [hb_last_addr EXCEPT ![p] = <<src_addr>>]
    /\ UNCHANGED <<hb_out_q, lastTick, queueVars, txIdVars, pendVars, snapVars, telemVars, threadVars,
                   routerVars,
                   adapterVars, missionVars, registryVars, deviceVars, bridgeVars, cfg, rt>>

\* A transport process takes the oldest entry off its out queue.
HbDrain(p) ==
    /\ hb_out_q[p] # <<>>
    /\ hb_out_q' = [hb_out_q EXCEPT ![p] = QueueGet(@).rest]
    /\ UNCHANGED <<hb_last_addr, lastTick, queueVars, txIdVars, pendVars, snapVars, telemVars, threadVars,
                   routerVars, adapterVars, missionVars, registryVars, deviceVars,
                   bridgeVars, cfg, rt>>

NoTick == [ticked |-> FALSE, encoded |-> FALSE, last |-> [p \in HbPorts |-> <<>>],
           put |-> [p \in HbPorts |-> <<>>]]

InitHbState ==
    /\ hb_last_addr = [p \in HbPorts |-> <<>>]
    /\ hb_out_q = [p \in HbPorts |-> <<>>]
    /\ lastTick = NoTick

----------------------------------------------------------------------------
(* Uploads started by a direct call (mqtt_adapter.py, MissionManager) *)

\* The missions and expected hashes a caller hands to start_mission_upload:
\* the items of the valid waypoint lists, and no hash or the hash load_waypoints
\* computes for one of those lists.
UploadMissions ==
    {waypoints_to_mission_items(validate_waypoints(w).norm) :
        w \in {v \in WaypointLists : validate_waypoints(v).ok}}
ExpectedHashes ==
    {<<>>} \cup {<<Digest(validate_waypoints(w).norm)>> :
                    w \in {v \in WaypointLists : validate_waypoints(v).ok}}

\* The hashes load_waypoints computes for the waypoints a mission was converted from.
CanonicalHashes(mission) ==
    {<<Digest(validate_waypoints(w).norm)>> :
        w \in {v \in WaypointLists :
                 /\ validate_waypoints(v).ok
                 /\ waypoints_to_mission_items(validate_waypoints(v).norm) = mission}}

\* MissionManager.start_mission_upload called with a mission and an expected hash.
StartMissionUpload(sysid, compid, mission, expected_hash) ==
    LET up == StartUpload(sysid, compid, mission, expected_hash)
    IN  /\ QueueRoom
        /\ upload_states' = [upload_states EXCEPT ![sysid] = up.st]
        /\ out_q' = up.q
        /\ lastMission' =
              [op |-> "start_mission_upload", sys |-> sysid, comp |-> compid,
               seq |-> 0,
               pre |-> upload_states[sysid],
               put |-> up.put, pub |-> <<>>, time |-> now]
        /\ lastStart' = [lastStart EXCEPT ![sysid].mission = mission,
                                          ![sysid].up_time = now]
        /\ UNCHANGED <<download_states, notMissionVars>>

StartMissionUploadStep ==
    \E s \in MissionSysids, c \in MissionCompids, m \in UploadMissions,
       h \in ExpectedHashes :
        StartMissionUpload(s, c, m, h) /\ UNCHANGED deviceVars

----------------------------------------------------------------------------
(* Pending commands, thread by thread (mqtt_adapter.py: on_message runs on the
   MQTT client's network thread, _pending_loop on its own thread, and no lock
   guards pending_commands) *)

\* What on_message and _pending_loop leave alone, the adapter's variables and
\* the out queues apart.
notPendingVars == <<now, forwards, observed_sysids, last_addr, recent_seen,
                    recent_forwarded, lastRoute, fwdAge, missionVars, registryVars,
                    deviceVars, bridgeVars, cfg, rt, telemVars, threadVars,
                    queueVars, txIdVars, hbVars, snapVars>>

\* MQTTAdapter.on_message up to its port lookup: with a port it sends (or gives
\* up for want of a last_addr) at once; without one it goes on to queue.
OnMessageLookup(target_sys, target_comp, data) ==
    /\ queueing = <<>>
    /\ IF DestPortFor(target_sys, observed_sysids) # <<>>
       THEN OnMessageCommand(target_sys, target_comp, data)
       ELSE /\ Len(cmds) < MaxCmds
            /\ cmds' = Append(cmds, [sys |-> target_sys, comp |-> target_comp,
                                     data |-> data, unobserved |-> TRUE])
            /\ puts' = Append(puts, 0)
            /\ queueing' = <<[key |-> target_sys,
                              item |-> [id |-> Len(cmds) + 1,
                                        topic |-> <<target_sys, target_comp>>,
                                        data |-> data]]>>
            /\ UNCHANGED <<pending_commands, acks, out_q, flush_sys, notPendingVars>>

\* on_message, "self.pending_commands.setdefault(target_sys, []).append((topic, data))".
OnMessageAppend ==
    /\ queueing # <<>>
    /\ pending_commands' =
          PendingAppend(pending_commands, queueing[1].key, queueing[1].item)
    /\ queueing' = <<>>
    /\ UNCHANGED <<acks, cmds, puts, out_q, flush_sys, notPendingVars>>

\* _pending_loop for one target_sys with a port and a last_addr:
\* "items = list(self.pending_commands.get(target_sys, []))" and the loop over items.
PendingFlush(i) ==
    LET e == pending_commands[i]
        dp == DestPortFor(e.key, observed_sysids)
        acc == FlushItems(e.items, e.key, dp[1], last_addr[dp[1]],
                          [keep |-> <<>>, q |-> out_q, acks |-> acks, puts |-> puts])
    IN  /\ flush_sys = <<>>
        /\ dp # <<>>
        /\ last_addr[dp[1]] # <<>>
        /\ out_q' = acc.q
        /\ acks' = acc.acks
        /\ puts' = acc.puts
        /\ flush_sys' = <<e.key>>
        /\ UNCHANGED <<pending_commands, cmds, queueing, notPendingVars>>

\* _pending_loop, "if target_sys in self.pending_commands: del self.pending_commands[target_sys]".
PendingDelete ==
    /\ flush_sys # <<>>
    /\ pending_commands' = SelectSeq(pending_commands, LAMBDA e : e.key # flush_sys[1])
    /\ flush_sys' = <<>>
    /\ UNCHANGED <<acks, cmds, puts, out_q, queueing, notPendingVars>>

InitPendState ==
    /\ queueing = <<>>
    /\ flush_sys = <<>>

----------------------------------------------------------------------------
(* Registry snapshot beside the RX loops (wayfarer core/registry.py,
   core/bridge.py: snapshot runs on the heartbeat thread, upsert_mav on the
   transports' RX threads, and DeviceRegistry has no lock) *)

\* What the heartbeat thread leaves alone.
notSnapVars == <<routerVars, adapterVars, missionVars, registryVars, deviceVars,
                 bridgeVars, cfg, rt, telemVars, threadVars, queueVars, txIdVars,
                 hbVars, pendVars>>

\* The keys of DeviceRegistry._store.
StoreKeys(st) == {d \in DeviceIds : st[d].known}

\* snapshot, "for k, v in self._store.items()": the iteration begins.
SnapshotBegin ==
    /\ hb_thread = "loop"
    /\ snap_iter = <<>>
    /\ snap_iter' = <<[used |-> Cardinality(StoreKeys(store)), out |-> {}]>>
    /\ UNCHANGED <<hb_thread, notSnapVars>>

\* snapshot, the next step of the for loop. A dict that changed its size since
\* the iteration began makes the iterator raise RuntimeError, or (the language
\* leaves it open) go unnoticed; snapshot and _heartbeat_loop catch nothing, so
\* the exception ends the heartbeat thread. An exhausted iterator ends
\* snapshot, and _heartbeat_loop publishes and sleeps.
SnapshotNext(noticed) ==
    LET it == snap_iter[1]
        left == StoreKeys(store) \ it.out
    IN  /\ snap_iter # <<>>
        /\ IF noticed /\ Cardinality(StoreKeys(store)) # it.used
           THEN /\ hb_thread' = "raised"
                /\ snap_iter' = <<>>
           ELSE IF left # {}
           THEN /\ \E d \in left : snap_iter' = <<[it EXCEPT !.out = @ \cup {d}]>>
                /\ UNCHANGED hb_thread
           ELSE /\ snap_iter' = <<>>
                /\ UNCHANGED hb_thread
        /\ UNCHANGED notSnapVars

InitSnapState ==
    /\ snap_iter = <<>>
    /\ hb_thread = "loop"

\* The initial state of the later sections.
InitMoreState ==
    /\ InitQueueState
    /\ InitTxIdState
    /\ InitHbState
    /\ InitPendState
    /\ InitSnapState

----------------------------------------------------------------------------
(* Specifications *)

\* The router alone, under each forwarding configuration.
InitRouter ==
    /\ InitRouterState
    /\ forwards \in ForwardConfigs
    /\ InitAdapterState
    /\ InitMissionState
    /\ InitRegistryState
    /\ InitDeviceState
    /\ InitBridgeState
    /\ routes = RoutesAll
    /\ cfg = CfgNoIdentity
    /\ rt = RtIdle
    /\ InitTelemState
    /\ InitThreadState
    /\ InitMoreState
    /\ InitStopState

NextRouter == RouterStep \/ TransportStep \/ Tick

SpecRouter == InitRouter /\ [][NextRouter]_vars

\* The MQTT adapter's command path beside a router without forwarding rules.
InitAdapter ==
    /\ InitRouterState
    /\ forwards = FwdNone
    /\ InitAdapterState
    /\ InitMissionState
    /\ InitRegistryState
    /\ InitDeviceState
    /\ InitBridgeState
    /\ routes = RoutesAll
    /\ cfg = CfgNoIdentity
    /\ rt = RtIdle
    /\ InitTelemState
    /\ InitThreadState
    /\ InitMoreState
    /\ InitStopState

NextAdapter == AdapterRouterStep \/ TransportStep \/ CommandStep \/ PendingLoop

SpecAdapter == InitAdapter /\ [][NextAdapter]_vars

\* The command path under each configuration of the GCS identity.
InitIdentity ==
    /\ InitRouterState
    /\ forwards = FwdNone
    /\ InitAdapterState
    /\ InitMissionState
    /\ InitRegistryState
    /\ InitDeviceState
    /\ InitBridgeState
    /\ routes = RoutesAll
    /\ cfg \in GcsConfigs
    /\ rt = RtIdle
    /\ InitTelemState
    /\ InitThreadState
    /\ InitMoreState
    /\ InitStopState

SpecIdentity == InitIdentity /\ [][NextAdapter]_vars

\* The mission manager beside a router without forwarding rules.
InitMission ==
    /\ InitRouterState
    /\ forwards = FwdNone
    /\ InitAdapterState
    /\ InitMissionState
    /\ InitRegistryState
    /\ InitDeviceState
    /\ InitBridgeState
    /\ routes = RoutesAll
    /\ cfg = CfgNoIdentity
    /\ rt = RtIdle
    /\ InitTelemState
    /\ InitThreadState
    /\ InitMoreState
    /\ InitStopState

NextMission ==
    \/ MissionRouterStep
    \/ TransportStep
    \/ LoadWaypointsStep
    \/ MissionRequestStep
    \/ MissionAckStep
    \/ DownloadMissionStep
    \/ MissionCountStep
    \/ MissionItemStep
    \/ IdleTimeout

SpecMission == InitMission /\ [][NextMission]_vars

\* The RX loops of the three transport classes, the bridge and the registry.
InitRegistry ==
    /\ InitRouterState
    /\ forwards = FwdNone
    /\ InitAdapterState
    /\ InitMissionState
    /\ InitRegistryState
    /\ InitDeviceState
    /\ InitBridgeState
    /\ routes = RoutesAll
    /\ cfg = CfgNoIdentity
    /\ rt = RtIdle
    /\ InitTelemState
    /\ InitThreadState
    /\ InitMoreState
    /\ InitStopState

NextRegistry == RxStep \/ ConnectStep \/ ProcStep

SpecRegistry == InitRegistry /\ [][NextRegistry]_vars

\* The adapter's own publications and other clients' publications, delivered
\* back through the broker to on_message and the mission manager.
InitDevice ==
    /\ InitRouterState
    /\ forwards = FwdNone
    /\ InitAdapterState
    /\ InitMissionState
    /\ InitRegistryState
    /\ InitDeviceState
    /\ InitBridgeState
    /\ routes = RoutesAll
    /\ cfg = CfgNoIdentity
    /\ rt = RtIdle
    /\ InitTelemState
    /\ InitThreadState
    /\ InitMoreState
    /\ InitStopState

NextDevice ==
    \/ MissionRouterStep
    \/ TransportStep
    \/ LoadWaypointsStep
    \/ DownloadMissionStep
    \/ PubLoopStep
    \/ ClientPublishStep
    \/ OnDeviceMessage

SpecDevice == InitDevice /\ [][NextDevice]_vars

\* The bridge's command path with the RX loops that fill the registry.
InitBridge ==
    /\ InitRouterState
    /\ forwards = FwdNone
    /\ InitAdapterState
    /\ InitMissionState
    /\ InitRegistryState
    /\ InitDeviceState
    /\ InitBridgeState
    /\ routes \in RouteConfigs
    /\ cfg = CfgNoIdentity
    /\ rt = RtIdle
    /\ InitTelemState
    /\ InitThreadState
    /\ InitMoreState
    /\ InitStopState

NextBridge ==
    \/ RxMissionRequestStep
    \/ ConnectStep
    \/ ProcStep
    \/ OnCmdStep
    \/ RouteLoop
    \/ TxLoopStep

SpecBridge == InitBridge /\ [][NextBridge]_vars

\* run_mission_test on every mission of RtMissions.
InitRoundTrip ==
    /\ InitRouterState
    /\ forwards = FwdNone
    /\ InitAdapterState
    /\ InitMissionState
    /\ InitRegistryState
    /\ InitDeviceState
    /\ InitBridgeState
    /\ routes = RoutesAll
    /\ cfg = CfgNoIdentity
    /\ \E mission \in RtMissions : rt = [RtIdle EXCEPT !.stage = "start", !.mission = mission]
    /\ InitTelemState
    /\ InitThreadState
    /\ InitMoreState
    /\ InitStopState

NextRoundTrip == RtUpload \/ RtDownload \/ RtCompare

SpecRoundTrip == InitRoundTrip /\ [][NextRoundTrip]_vars

\* The telemetry path: two UDP transports, the router and the adapter's
\* publish loop, with no forwarding rule or with one. All reads fall within one
\* tick of the clock, that is within the dedupe window of each other.
InitTelemetry ==
    /\ now = 1
    /\ observed_sysids = [p \in Ports |-> {}]
    /\ last_addr = [p \in Ports |-> <<>>]
    /\ recent_seen = [f \in Frames \cup TelemData |-> 0]
    /\ recent_forwarded = [k \in Ports \X (Frames \cup TelemData) \X AllTargets |-> 0]
    /\ out_q = [p \in Ports |-> <<>>]
    /\ lastRoute = NoRoute
    /\ fwdAge = [f \in Frames |-> DedupeWindow]
    /\ forwards \in {FwdNone, FwdAnyToPort}
    /\ InitAdapterState
    /\ InitMissionState
    /\ InitRegistryState
    /\ InitDeviceState
    /\ InitBridgeState
    /\ routes = RoutesAll
    /\ cfg = CfgNoIdentity
    /\ rt = RtIdle
    /\ InitTelemState
    /\ InitThreadState
    /\ InitMoreState
    /\ InitStopState

NextTelemetry == UdpReceiveStep \/ TelemRoute \/ PubLoopRead \/ TransportStep

SpecTelemetry == InitTelemetry /\ [][NextTelemetry]_vars

\* The worker threads of one transport of each class, never stopped.
NextIo == \E t \in Transports : WorkerStep(t)

SpecIo == InitRegistry /\ [][NextIo]_vars

\* A MavlinkGeneral transport beside a MavlinkSerial one. Every thread of the
\* first that can take a step takes one (the blocking calls have timeouts), an
\* open attempt eventually succeeds, and a thread waiting for the lock
\* eventually gets it.
GeneralT == "general_t"

NextReconnect == \E t \in {GeneralT, "serial_t"} : WorkerStep(t)

FairReconnect ==
    /\ WF_vars(CoOpen(GeneralT, TRUE))
    /\ WF_vars(CoSet(GeneralT))
    /\ WF_vars(\E outcome \in {"msg", "none", "error"} : RxReturn(GeneralT, outcome))
    /\ WF_vars(\E ok \in BOOLEAN : TxReturn(GeneralT, ok))
    /\ SF_vars(RxReset(GeneralT))
    /\ SF_vars(TxReset(GeneralT))

SpecReconnect == InitRegistry /\ [][NextReconnect]_vars /\ FairReconnect

\* Bridge.stop beside the Bridge workers and the threads of the MavlinkGeneral
\* transport; the queues hold nothing, one packet, or are full when the model
\* starts.
InitStop ==
    /\ InitRouterState
    /\ forwards = FwdNone
    /\ InitAdapterState
    /\ InitMissionState
    /\ InitRegistryState
    /\ InitDeviceState
    /\ InitBridgeState
    /\ routes = RoutesAll
    /\ cfg = CfgNoIdentity
    /\ rt = RtIdle
    /\ InitTelemState
    /\ InitThreadState
    /\ InitMoreState
    /\ b_run = TRUE
    /\ stop_pc = "running"
    /\ bq \in [QueueWorkers -> {[i \in 1..n |-> "pkt"] : n \in 0..QCap}]
    /\ wk_pc = [w \in Workers |-> "check"]

GeneralStep ==
    \/ \E ok \in BOOLEAN : CoOpen(GeneralT, ok)
    \/ CoSet(GeneralT)
    \/ CoExit(GeneralT)
    \/ RxWait(GeneralT)
    \/ RxEnter(GeneralT)
    \/ \E outcome \in {"msg", "none", "error"} : RxReturn(GeneralT, outcome)
    \/ RxDiscover(GeneralT)
    \/ RxReset(GeneralT)
    \/ RxExit(GeneralT)
    \/ TxTake(GeneralT)
    \/ \E raw \in BOOLEAN : TxEnter(GeneralT, raw)
    \/ \E ok \in BOOLEAN : TxReturn(GeneralT, ok)
    \/ TxReset(GeneralT)
    \/ TxExit(GeneralT)

NextStop ==
    \/ StopFlag
    \/ StopTransports
    \/ StopClose
    \/ StopSentinel
    \/ \E w \in Workers : LoopCheck(w)
    \/ \E w \in Workers : QueueTake(w)
    \/ \E w \in Workers : Beat(w)
    \/ GeneralStep

\* Some thread that can take a step takes one: after stop every loop has
\* finitely many steps left, so no thread has to be preferred over another.
FairStop == WF_vars(NextStop)

SpecStop == InitStop /\ [][NextStop]_vars /\ FairStop

\* The producers and the consumers of the hand-off queues.
NextQueues ==
    \/ \E k \in HandOffQueues : \E item \in QueueItems(k) : PutPacket(k, item)
    \/ \E k \in HandOffQueues : TakePacket(k)

SpecQueues == InitRegistry /\ [][NextQueues]_vars

\* The TX thread of a MavlinkGeneral transport on non-raw packets, for every
\* stored source identity.
InitTxId ==
    /\ InitRouterState
    /\ forwards = FwdNone
    /\ InitAdapterState
    /\ InitMissionState
    /\ InitRegistryState
    /\ InitDeviceState
    /\ InitBridgeState
    /\ routes = RoutesAll
    /\ cfg = CfgNoIdentity
    /\ rt = RtIdle
    /\ InitTelemState
    /\ InitThreadState
    /\ InitStopState
    /\ InitQueueState
    /\ InitHbState
    /\ InitPendState
    /\ InitSnapState
    /\ src_identity \in SourceIdentities
    /\ conn_id = <<>>
    /\ lastTx = NoTx

NextTxId ==
    \/ \E pkt \in TxPackets, ok \in BOOLEAN : TxSendPacket(pkt, ok)
    \/ TxReopen

SpecTxId == InitTxId /\ [][NextTxId]_vars

\* The heartbeat generator beside the router and the transport processes.
NextGcsHeartbeat ==
    \/ \E encoded \in BOOLEAN : HbTick(encoded)
    \/ \E p \in HbPorts : \E a \in HbSrcAddrs(p) : HbObserve(p, a)
    \/ \E p \in HbPorts : HbDrain(p)

SpecGcsHeartbeat == InitRegistry /\ [][NextGcsHeartbeat]_vars

\* The mission manager with uploads started by load_waypoints and by direct calls
\* of start_mission_upload.
NextUploadHash ==
    \/ NextMission
    \/ StartMissionUploadStep

SpecUploadHash == InitMission /\ [][NextUploadHash]_vars

\* The command path with on_message and _pending_loop as two threads.
NextPending ==
    \/ AdapterRouterStep
    \/ \E s \in CmdSysids, c \in CmdCompids, d \in Payloads : OnMessageLookup(s, c, d)
    \/ OnMessageAppend
    \/ \E i \in 1..Len(pending_commands) : PendingFlush(i)
    \/ PendingDelete

SpecPending == InitAdapter /\ [][NextPending]_vars

\* The mission manager with uploads to two vehicles.
AckSysids == {3, 4}

InitAck ==
    /\ InitRouterState
    /\ forwards = FwdNone
    /\ InitAdapterState
    /\ upload_states = [s \in AckSysids |-> NoUpload]
    /\ download_states = [s \in AckSysids |-> NoDownload]
    /\ lastMission = NoMission
    /\ lastStart = [s \in AckSysids |-> NoStart]
    /\ InitRegistryState
    /\ InitDeviceState
    /\ InitBridgeState
    /\ routes = RoutesAll
    /\ cfg = CfgNoIdentity
    /\ rt = RtIdle
    /\ InitTelemState
    /\ InitThreadState
    /\ InitMoreState
    /\ InitStopState

NextAck ==
    \/ AdapterRouterStep
    \/ TransportStep
    \/ \E s \in AckSysids, c \in MissionCompids, w \in WaypointLists :
          LoadWaypoints(s, c, w) /\ UNCHANGED deviceVars
    \/ \E s \in AckSysids, c \in MissionCompids, k \in RequestSeqs :
          MissionRequest(s, c, k) /\ UNCHANGED deviceVars
    \/ \E s \in AckSysids, c \in MissionCompids :
          MissionAck(s, c) /\ UNCHANGED deviceVars

SpecAck == InitAck /\ [][NextAck]_vars

\* The RX loops beside the heartbeat thread's snapshots.
NextSnapshot ==
    \/ NextRegistry
    \/ SnapshotBegin
    \/ \E noticed \in BOOLEAN : SnapshotNext(noticed)

SpecSnapshot == InitRegistry /\ [][NextSnapshot]_vars

-----------------------------------------------------------------------------
(* Mission manager claims *)

\* C8: a MISSION_REQUEST with 0 <= seq = k < len(mission), handled while the
\* upload is in sending_items, sends exactly one frame, the MISSION_ITEM_INT
\* built from mission[k], and k is in the state's sent set afterwards.
C8_RequestSendsItemK ==
    LET k == lastMission.seq
        pre == lastMission.pre
    IN  (/\ lastMission.op = "MISSION_REQUEST"
         /\ pre.state = "sending_items"
         /\ k >= 0
         /\ k < Len(pre.mission))
            => /\ lastMission.put =
                      <<EncodeMissionItemInt(lastMission.sys, lastMission.comp, k,
                                             pre.mission[k + 1])>>
               /\ k \in upload_states[lastMission.sys].sent

\* Out of order and repeated: item 1 of a two-item mission was requested when it
\* had been sent already and item 0 had not, and it was sent again.
C8_Witness ==
    /\ lastMission.op = "MISSION_REQUEST"
    /\ lastMission.seq = 1
    /\ lastMission.pre.state = "sending_items"
    /\ Len(lastMission.pre.mission) = 2
    /\ lastMission.pre.sent = {1}
    /\ Len(lastMission.put) = 1
    /\ lastMission.put[1].seq = 1
    /\ lastMission.put[1].x = 480000000
    /\ upload_states[3].sent = {1}

C10_TimeoutFails ==
    \A s \in MissionSysids :
        (now - lastMission.time > MissionTimeout)
            => /\ upload_states[s].state \in {"none", "completed", "failed"}
               /\ download_states[s].state \in {"none", "completed", "failed"}

\* C11: a sysid has one upload state and one download state. After
\* start_mission_upload the upload state is fresh (sending_count or
\* sending_items, empty sent set, the new mission, the new start time), after
\* start_mission_download the download state is fresh (requesting_list, empty
\* mission, new start time), and every item sent for a later MISSION_REQUEST is
\* built from the mission of the latest start.
C11_RestartIsFresh ==
    \A s \in MissionSysids :
        /\ lastStart[s].up_time # 0
              => /\ upload_states[s].mission = lastStart[s].mission
                 /\ upload_states[s].start_time = lastStart[s].up_time
                 /\ upload_states[s].state \in {"sending_count", "sending_items", "completed"}
        /\ (lastMission.op = "load_waypoints" /\ lastMission.sys = s
                /\ lastMission.pub[1].ok)
              => /\ upload_states[s].state \in {"sending_count", "sending_items"}
                 /\ upload_states[s].sent = {}
                 /\ upload_states[s].start_time = lastMission.time
        /\ (lastMission.op = "download_mission" /\ lastMission.sys = s)
              => download_states[s] =
                    [state |-> "requesting_list", mission |-> <<>>,
                     start_time |-> lastMission.time,
                     target_comp |-> lastMission.comp]
        /\ (lastMission.op = "MISSION_REQUEST" /\ lastMission.sys = s
                /\ lastMission.put # <<>>)
              => lastMission.put =
                    <<EncodeMissionItemInt(s, lastMission.comp, lastMission.seq,
                                           lastStart[s].mission[lastMission.seq + 1])>>

\* An upload of one item, whose item had been sent, was replaced by an upload
\* of two items at a later time.
C11_Witness ==
    /\ lastMission.op = "load_waypoints"
    /\ lastMission.pre.state = "sending_items"
    /\ Len(lastMission.pre.mission) = 1
    /\ lastMission.pre.sent = {0}
    /\ lastMission.time > lastMission.pre.start_time
    /\ upload_states[3].state = "sending_items"
    /\ Len(upload_states[3].mission) = 2
    /\ upload_states[3].sent = {}

\* C14: while a download is in progress, after MISSION_ITEM_INT seq is stored
\* and at least one hole remains, a MISSION_REQUEST_INT is sent for a seq that
\* is still a hole, whatever the order in which the items arrive.
C14_RequestsAHole ==
    \A s \in MissionSysids :
        ( /\ lastMission.op = "MISSION_ITEM_INT" /\ lastMission.sys = s
          /\ Observed(s)
          /\ download_states[s].state = "downloading"
          /\ lastMission.seq < Len(download_states[s].mission) )
        => \E k \in 0..(Len(download_states[s].mission) - 1) :
              /\ download_states[s].mission[k + 1] = <<>>
              /\ lastMission.put = <<EncodeMissionRequestInt(s, lastMission.comp, k)>>

\* C15: a MISSION_COUNT with count = 0 during a download completes the
\* download at once with an empty mission, and no MISSION_REQUEST_INT is sent.
C15_EmptyCountCompletes ==
    \A s \in MissionSysids :
        (lastMission.op = "MISSION_COUNT" /\ lastMission.sys = s /\ lastMission.seq = 0)
            => /\ download_states[s].state = "completed"
               /\ download_states[s].mission = <<>>
               /\ lastMission.put = <<>>

C15_Witness ==
    /\ lastMission.op = "MISSION_COUNT" /\ lastMission.sys = 3 /\ lastMission.seq = 0
    /\ Observed(3)
    /\ download_states[3].state = "completed"
    /\ download_states[3].target_comp = 1

\* C16: while an upload is in sending_items, a MISSION_REQUEST whose seq is
\* outside 0..len(mission)-1 makes the upload failed and publishes a failure
\* status on the upload result topic; no MISSION_ITEM_INT is sent for it.
C16_InvalidSeqFails ==
    \A s \in MissionSysids :
        ( /\ lastMission.op = "MISSION_REQUEST" /\ lastMission.sys = s
          /\ lastMission.pre.state = "sending_items"
          /\ (lastMission.seq < 0 \/ lastMission.seq >= Len(lastMission.pre.mission)) )
        => /\ upload_states[s].state = "failed"
           /\ lastMission.pub # <<>>
           /\ lastMission.put = <<>>

\* The step is a call of handle_mission_item that published the downloaded
\* mission of sysid s.
PublishedDownload(s) ==
    /\ lastMission' # lastMission
    /\ lastMission'.op = "MISSION_ITEM_INT"
    /\ lastMission'.sys = s
    /\ lastMission'.pub # <<>>
    /\ lastMission'.pub[1].root = "Nomad/missions/downloaded"

\* C34: a download of n > 0 items becomes completed exactly when the last hole
\* is filled; a completed download holds n items and no hole; the mission is
\* published on Nomad/missions/downloaded/<s> by the step that completes the
\* download and by no other step, so once per download. (A MISSION_COUNT of 0
\* starts a new, empty download that is completed at once.)
C34_CompletedOncePerDownload ==
    [][\A s \in MissionSysids :
         LET pre == download_states[s]
             post == download_states'[s]
             holes(m) == {i \in 1..Len(m) : m[i] = <<>>}
         IN  /\ (pre.state = "downloading" /\ post.state = "completed"
                 /\ Len(post.mission) > 0) <=> PublishedDownload(s)
             /\ PublishedDownload(s) =>
                    /\ Cardinality(holes(pre.mission)) = 1
                    /\ holes(pre.mission) = {lastMission'.seq + 1}
                    /\ lastMission'.pub[1].mission = post.mission
             /\ post.state = "completed" => holes(post.mission) = {}
             /\ post.state = "downloading" => holes(post.mission) # {}
             /\ (lastMission' # lastMission /\ lastMission'.op = "MISSION_COUNT"
                 /\ lastMission'.sys = s) => Len(post.mission) = lastMission'.seq
             /\ (lastMission' # lastMission /\ lastMission'.op = "MISSION_ITEM_INT")
                    => Len(post.mission) = Len(pre.mission)
    ]_vars

\* A two-item download is completed and an item that arrived after the
\* completion has been handled.
C34_Witness ==
    /\ download_states[3].state = "completed"
    /\ Len(download_states[3].mission) = 2
    /\ lastMission.op = "MISSION_ITEM_INT"
    /\ lastMission.sys = 3
    /\ lastMission.seq \in {0, 1}
    /\ lastMission.pub = <<>>

\* The MISSION_ACK that ended the waiting for an upload started with an expected hash.
AckedWithHash ==
    /\ lastMission.op = "MISSION_ACK"
    /\ lastMission.pre.state = "sending_items"
    /\ lastMission.pre.expected_hash # <<>>

\* C35: a MISSION_ACK for an upload with an expected hash completes the upload when
\* the canonical hash of the acknowledged mission is the expected one, and otherwise
\* sets the state to failed and publishes a failure status.
C35_HashVerified ==
    AckedWithHash =>
        LET pre == lastMission.pre
            post == upload_states[lastMission.sys]
        IN  IF pre.expected_hash \in CanonicalHashes(pre.mission)
            THEN /\ post.state = "completed"
                 /\ Len(lastMission.pub) = 1
                 /\ lastMission.pub[1].status = "completed"
            ELSE /\ post.state = "failed"
                 /\ Len(lastMission.pub) = 1
                 /\ lastMission.pub[1].status = "failed"

\* The step is taken with the upload of the last MISSION_ACK's sysid in the state
\* that MISSION_ACK found: a MISSION_ACK step, or a step after a MISSION_ACK that
\* changed nothing.
AckStep ==
    /\ lastMission'.op = "MISSION_ACK"
    /\ lastMission'.pre = upload_states[lastMission'.sys]

\* C37: a MISSION_ACK for an upload in sending_items completes it and publishes one
\* completed status; in any other state (completed, sending_count, no upload) it
\* changes no upload state and publishes nothing; it never changes the upload of
\* another sysid; and an upload leaves completed only by the start of a new upload,
\* so that each started upload gets at most one completed status.
C37_OneCompletedPerUpload ==
    [][/\ AckStep =>
            LET a == lastMission'.sys
                pre == upload_states[a]
            IN  /\ \A b \in AckSysids \ {a} : upload_states'[b] = upload_states[b]
                /\ pre.state # "sending_items" =>
                      /\ upload_states' = upload_states
                      /\ lastMission'.pub = <<>>
                /\ pre.state = "sending_items" =>
                      /\ upload_states'[a] = [pre EXCEPT !.state = "completed"]
                      /\ Len(lastMission'.pub) = 1
                      /\ lastMission'.pub[1].status = "completed"
                      /\ lastMission'.pub[1].sys = a
       /\ \A s \in AckSysids :
            /\ upload_states[s].state = "completed"
            /\ upload_states'[s] # upload_states[s]
            => /\ lastMission'.op = "load_waypoints"
               /\ lastMission'.sys = s
               /\ upload_states'[s].state \in {"sending_count", "sending_items"}
      ]_vars

\* A MISSION_ACK for sysid 3 arrived when its upload was already completed, while
\* the upload of sysid 4 was waiting for its MISSION_ACK.
C37_Witness ==
    /\ lastMission.op = "MISSION_ACK"
    /\ lastMission.sys = 3
    /\ lastMission.pre.state = "completed"
    /\ lastMission.pub = <<>>
    /\ upload_states[3].state = "completed"
    /\ upload_states[4].state = "sending_items"

-----------------------------------------------------------------------------
(* Device topic claims *)

\* C12: every decoded mission frame (MISSION_REQUEST, MISSION_REQUEST_INT,
\* MISSION_ACK, MISSION_COUNT, MISSION_ITEM_INT) from vehicle sysid s that
\* _pub_loop publishes is delivered to the adapter, and on_message calls the
\* matching MissionManager handler with sysid = s.
C12_PublishedReachesHandler ==
    lastDevice.origin = "pub_loop"
        => /\ lastDevice.delivered
           /\ lastDevice.stage = "handled"
                 => /\ lastDevice.handler = MatchingHandler(lastDevice.msg_type)
                    /\ lastDevice.sysid = <<lastDevice.src_sys>>

-----------------------------------------------------------------------------
(* Bridge command path claims *)

\* C13: during an upload a MISSION_ITEM_INT with seq k is sent only after a
\* MISSION_REQUEST for k was received from the vehicle: every item a
\* transport has sent on the wire answers a request that was received.
C13_ItemsOnlyOnRequest ==
    \A t \in Transports :
        \A i \in 1..Len(wire[t]) :
            wire[t][i].msg = "MISSION_ITEM_INT" => wire[t][i].seq \in req_rx

\* C19: a command addressed to sysid N is written only to transports that have
\* observed N, the members of transports_for("mav_sys<N>").
C19_WrittenOnlyToObservers ==
    (lastCmd.op = "route" /\ lastCmd.device_id # <<>>)
        => lastCmd.written \subseteq lastCmd.observers

\* C40: every MISSION_COUNT that send_command sent for a MISSION_UPLOAD packet is
\* followed on the connection by as many MISSION_ITEM_INT frames as it announces,
\* with the seq values 0..count-1 in turn, and by no further one.
C40_CountMatchesItems ==
    \A t \in Transports : \A i \in 1..Len(wire[t]) :
        wire[t][i].msg = "MISSION_COUNT" =>
            LET n == wire[t][i].count
            IN  /\ Len(wire[t]) >= i + n
                /\ \A k \in 0..(n - 1) :
                      /\ wire[t][i + 1 + k].msg = "MISSION_ITEM_INT"
                      /\ wire[t][i + 1 + k].seq = k
                /\ Len(wire[t]) > i + n => wire[t][i + n + 1].msg # "MISSION_ITEM_INT"

-----------------------------------------------------------------------------
(* Mission round trip claims *)

\* C20: for every mission in the uploader's item schema, the hash of the
\* canonicalized mission equals the hash of the canonicalized list that
\* MissionDownloader returns when the vehicle returns the uploaded values.
C20_RoundTripHashesMatch ==
    rt.stage = "done" => rt.upl_hash = rt.dl_hash

-----------------------------------------------------------------------------
(* Telemetry path claims *)

\* The read with index i has been taken off mqtt_pub_q by _pub_loop.
Published(i) == \A k \in 1..Len(mqtt_pub_q) : mqtt_pub_q[k].idx # i

\* The publishes _pub_loop made in the iteration for read i.
PublishesOf(i) == SelectSeq(pub_log, LAMBDA e : e.read = i)

\* C21: when the same raw frame is received twice on a transport within the
\* dedupe window, exactly one MQTT publish results for the pair: the second copy
\* produces no telemetry publish.
C21_DuplicatePublishedOnce ==
    \A i \in 1..Len(rx_log) : \A j \in (i + 1)..Len(rx_log) :
        (/\ rx_log[i].port = rx_log[j].port
         /\ rx_log[i].read = rx_log[j].read
         /\ Len(rx_log[i].read) = 1
         /\ rx_log[i].read[1].part = "whole"
         /\ rx_log[j].time - rx_log[i].time < DedupeWindow
         /\ Published(i)
         /\ Published(j))
            => PublishesOf(j) = <<>>

\* The i-th read is one whole frame of the vehicle.
OneFrame(i) ==
    /\ Len(rx_log[i].read) = 1
    /\ rx_log[i].read[1].part = "whole"

RECURSIVE HeldAfter(_, _)
HeldAfter(port, k) ==
    IF k = 0 THEN <<>>
    ELSE IF rx_log[k].port # port THEN HeldAfter(port, k - 1)
    ELSE ParseRead(HeldAfter(port, k - 1), rx_log[k].read, k, <<>>).held

\* The frames the i-th read completes.
CompletedBy(i) ==
    ParseRead(HeldAfter(rx_log[i].port, i - 1), rx_log[i].read, i, <<>>).messages

\* C25: for any sequence of reads, where a read may hold several complete frames
\* or part of a frame, every complete frame is published on its device topic
\* exactly once: the device publishes made for a read are the frames that read
\* completed, none skipped and none of an earlier read published again.
C25_EveryFrameOnce ==
    \A i \in 1..Len(rx_log) :
        Published(i) =>
            LET dev == SelectSeq(PublishesOf(i), LAMBDA e : e.topic = "device")
            IN  [k \in 1..Len(dev) |-> [sys |-> dev[k].sys, n |-> dev[k].n,
                                        idx |-> dev[k].from]]
                    = CompletedBy(i)

-----------------------------------------------------------------------------
(* Worker thread claims *)

\* C27: on one transport a read on the connection handle and a write on the
\* connection handle never overlap: in every interleaving of the RX and TX
\* workers at most one of them is inside a connection I/O call.
C27_ReadWriteNeverOverlap ==
    \A t \in Transports : ~(rx_pc[t] = "reading" /\ tx_pc[t] = "writing")

\* C28: when two RX threads have called upsert_mav for the same sysid with
\* different transport names, in any interleaving, the registry holds one entry
\* for the sysid whose transports set contains both names and whose first_seen
\* is the one set by the first call.
C28_NoLostUpdate ==
    (\E a, b \in up_hist.done : a # b)
        => /\ up_store # ""
           /\ up_hist.done \subseteq up_heap[up_store]
           /\ up_store = up_hist.first

\* The RX and TX threads of MavlinkGeneral are inside a read or a write only
\* while a connection is set.
NoIoWithoutConn ==
    (rx_pc[GeneralT] = "reading" \/ tx_pc[GeneralT] = "writing")
        => io_conn[GeneralT] = "open"

\* An RX or TX error has been raised and its except branch has not run yet.
ErrorRaised == rx_pc[GeneralT] = "reset" \/ tx_pc[GeneralT] = "reset"

AllExited ==
    /\ \A w \in Workers : wk_pc[w] = "exited"
    /\ co_pc[GeneralT] = "exited"
    /\ rx_pc[GeneralT] = "exited"
    /\ tx_pc[GeneralT] = "exited"

\* C30: after Bridge.stop() every worker it started (the processing, routing,
\* heartbeat and GCS loops and the connect, RX and TX loops of the transport)
\* eventually exits, whatever the queues hold: nothing, some packets, or so many
\* that the sentinel cannot be enqueued.
C30_StopEndsEveryWorker ==
    (stop_pc = "done") ~> AllExited

\* C30 witness: stop has returned, the inbound queue was full so that its
\* sentinel was dropped, and every worker has exited.
C30_Witness ==
    /\ stop_pc = "done"
    /\ AllExited
    /\ bq["proc"] # <<>>
    /\ \A i \in 1..Len(bq["proc"]) : bq["proc"][i] = "pkt"

C38_NoConnAfterStop ==
    /\ stop_pc \in {"sentinel", "done"}
    /\ co_pc[GeneralT] = "exited"
    /\ rx_pc[GeneralT] = "exited"
    /\ tx_pc[GeneralT] = "exited"
    => io_conn[GeneralT] = "none"

----------------------------------------------------------------------------
(* Hand-off queue claims *)

\* C31: no queue constructed with a capacity ever holds more than that, and
\* every put that found its queue full was counted by a drop counter. (Queues
\* constructed without a capacity never refuse a put.)
C31_FullPutsCounted ==
    /\ \A k \in BoundedQueues : Len(hq[k]) <= QueueMaxsize(k)
    /\ \A k \in HandOffQueues : DropCounter(k) = full_puts[k]

----------------------------------------------------------------------------
(* Source identity claims *)

\* The last packet _tx_loop sent was a HEARTBEAT or REQUEST_DATA_STREAM that
\* carries a source identity of its own.
SentOwnIdentity ==
    /\ lastTx.sent
    /\ lastTx.pkt[1].msg_type \in {"HEARTBEAT", "REQUEST_DATA_STREAM"}
    /\ OwnIdentity(lastTx.pkt[1])

\* C32: after the TX loop has sent a HEARTBEAT or REQUEST_DATA_STREAM packet
\* that carries its own source identity, the connection's source_system and
\* source_component are what they were before the packet was dequeued.
C32_IdentityRestored ==
    SentOwnIdentity => lastTx.after = lastTx.before

----------------------------------------------------------------------------
(* GCS heartbeat claims *)

\* C33: on every tick of the heartbeat generator each serial transport gets
\* one HEARTBEAT with a nil destination, whether or not frames were received
\* on it; each UDP port gets one HEARTBEAT to its last_addr if recorded, else
\* to its endpoint address if it has one, else nothing.
C33_HeartbeatPerPort ==
    lastTick.ticked /\ lastTick.encoded =>
        \A p \in HbPorts :
            IF p \in DOMAIN HbTransportType /\ HbTransportType[p] = "serial"
            THEN lastTick.put[p] = <<[dest |-> <<>>, data |-> "HEARTBEAT"]>>
            ELSE IF lastTick.last[p] # <<>>
                 THEN lastTick.put[p] = <<[dest |-> lastTick.last[p], data |-> "HEARTBEAT"]>>
                 ELSE IF p \in DOMAIN HbEndpoints
                      THEN lastTick.put[p] = <<[dest |-> <<HbEndpoints[p]>>, data |-> "HEARTBEAT"]>>
                      ELSE lastTick.put[p] = <<>>

----------------------------------------------------------------------------
(* Pending command claims *)

\* The ids of the commands on_message has appended to pending_commands.
AppendedIds ==
    {id \in 1..Len(cmds) :
        /\ cmds[id].unobserved
        /\ ~(queueing # <<>> /\ queueing[1].item.id = id)}

\* C36: every command on_message appended to pending_commands is still in
\* pending_commands or has been put on an out queue.
C36_NoCommandLost ==
    \A id \in AppendedIds : id \in PendingIds \/ puts[id] >= 1

----------------------------------------------------------------------------
(* Registry claims *)

\* C3: once the RX loop of transport T has processed a frame whose source sysid
\* is defined, transports_for(device_id_for_mav(sysid)) contains T, for each of
\* the transport classes MavlinkUDP, MavlinkSerial and MavlinkGeneral.
C3_RegistryHoldsTransport ==
    (lastRx.transport # "" /\ lastRx.src # 0)
        => lastRx.transport \in transports_for(device_id_for_mav(lastRx.src))

\* C26: for each complete frame with a valid source sysid received by a transport
\* wired to the Bridge callbacks, the RX loop passes exactly one Packet with
\* origin = the transport's name to on_packet, and the connection stays open.
C26_PacketPassedConnectionOpen ==
    (lastRx.transport # "" /\ lastRx.src # 0)
        => /\ lastRx.delivered
           /\ ~lastRx.reset

\* C39: DeviceRegistry.snapshot() never fails while the RX threads call
\* upsert_mav, so that the heartbeat thread keeps running.
C39_SnapshotNeverFails ==
    hb_thread # "raised"

----------------------------------------------------------------------------
(* MQTT adapter claims *)

C6_PendingDelivered ==
    \A id \in 1..Len(cmds) :
        (cmds[id].unobserved /\ id \notin PendingIds)
            => /\ puts[id] = 1
               /\ \E k \in 1..Len(acks) :
                     /\ acks[k].cmd = id
                     /\ acks[k].sys = cmds[id].sys
                     /\ acks[k].status = "delivered"

\* C7: a command that is no longer pending has exactly one ack on
\* command/<sysid>/<compid>/ack, <sysid>/<compid> being those of its topic.
C7_ExactlyOneAck ==
    \A id \in 1..Len(cmds) :
        id \notin PendingIds
            => Cardinality(AcksFor(id, cmds[id].sys, cmds[id].comp)) = 1

\* C17: a command-topic payload that is not valid JSON (TEXT), or is JSON of no
\* recognised command shape (OTHER), is dropped: nothing is put on an out
\* queue or kept for later delivery, and an ack with status "rejected" is
\* published for it.
C17_InvalidPayloadRejected ==
    \A id \in 1..Len(cmds) :
        cmds[id].data.kind \in {"TEXT", "OTHER"}
            => /\ puts[id] = 0
               /\ id \notin PendingIds
               /\ \E k \in 1..Len(acks) : acks[k].cmd = id /\ acks[k].status = "rejected"

\* C18: a MAVLink frame the adapter encodes and queues, at once or when it
\* flushes pending_commands, carries the configured gcs_sysid and gcs_compid
\* as its header source whenever an identity is configured.
C18_SourceIsConfigured ==
    \A p \in Ports :
        \A i \in 1..Len(out_q[p]) :
            (out_q[p][i].data.msg \in {"COMMAND_LONG", "MISSION_ITEM_INT"}
             /\ cfg.gcs_sysid # <<>> /\ cfg.gcs_compid # <<>>)
                => /\ out_q[p][i].data.src_sys = cfg.gcs_sysid[1]
                   /\ out_q[p][i].data.src_comp = cfg.gcs_compid[1]

----------------------------------------------------------------------------
(* Router claims *)

\* C1: whenever route_once processes a frame that arrived on port P, every out-queue
\* put and every forward it performs for that frame goes to a destination other
\* than P, under the sysid policy and under declarative forward rules alike.
C1_NoForwardToOrigin ==
    lastRoute.port \notin (lastRoute.fwd_ports \cup lastRoute.dests)

\* C2: of two frames with identical bytes processed less than dedupe_window apart,
\* at most one is forwarded to any destination, whatever the configuration: a
\* frame forwarded less than DedupeWindow ticks ago is not forwarded again.
C2_DedupeWithinWindow ==
    (lastRoute.data # <<>> /\ lastRoute.prevAge < DedupeWindow)
        => /\ lastRoute.fwd_ports = {}
           /\ lastRoute.fwd_udp = {}
           /\ lastRoute.dests = {}

\* C4: under the sysid routing policy a frame with source sysid < 250 that arrived
\* on port P is enqueued to port Q if and only if Q # P and Q has observed at
\* least one sysid in 250..255.
C4_VehicleOnlyToGcsPorts ==
    LET sc == parse_sysid_compid(lastRoute.data)
    IN  (lastRoute.data # <<>> /\ ~lastRoute.suppressed /\ sc # <<>> /\ sc[1] < 250)
            => \A q \in Ports :
                  q \in lastRoute.dests
                     <=> (q # lastRoute.port
                          /\ \E s \in observed_sysids[q] : 250 <= s /\ s <= 255)

\* C4 witness: a vehicle frame from udp_14550 went to udp_14560, which has seen a
\* GCS, while in the same run udp_14550 has seen the vehicle only.
C4_Witness ==
    /\ lastRoute.data = FrameVehicle
    /\ lastRoute.port = "udp_14550"
    /\ lastRoute.dests = {"udp_14560"}
    /\ observed_sysids["udp_14550"] = {3}
    /\ 251 \in observed_sysids["udp_14560"]

C24_AtMostOneCopyPerPort ==
    lastRoute.fwd_ports \cap lastRoute.dests = {}

====
